---- MODULE Spec2Model ----
(***************************************************************************)
(* Model of the quantum signal-analysis engine of the repository:          *)
(*   apps/prediction/engines/quantum_engine.py  (QuantumTradingEngine 2.0) *)
(*   apps/prediction/services.py                (the older engine)         *)
(*   apps/prediction/engines/base_engine.py     (BasePredictionEngine)     *)
(*                                                                         *)
(* Real numbers are fixed point: hurst, volatility and thresholds are in   *)
(* thousandths (0.65 is 650), confidences in hundredths (0.95 is 95).      *)
(* np.nan is the sentinel NaN; every comparison goes through FGt / FLt,    *)
(* which are false as soon as one side is NaN, as IEEE comparisons are.    *)
(***************************************************************************)
EXTENDS Integers, Sequences, FiniteSets, TLC

VARIABLES
    sigIn,      \* the arguments of one aggregator call
    qres,       \* what quantum_engine._generate_quantum_signal returned
    sres,       \* what services._generate_trading_signal returned
    eng,        \* one engines/quantum_engine.py QuantumTradingEngine instance
    svc,        \* the services.py QuantumTradingEngine the orchestrator holds
    lastCall,   \* the last construction or initialize() call and its outcome
    call,       \* the analyze() call in progress: implementation and input
    pc,         \* the position of that call in the pipeline
    ran,        \* the estimator steps that call has run so far
    outcome,    \* how that call ended
    hin,        \* the input of one _calculate_ma_dfa_optimized call
    hurst,      \* its hurst array (Unwritten: a slot of np.empty not yet set)
    fluct,      \* its fluctuations array, as mean squared residuals <<num, den>>
    trace,      \* per index: the window used and whether hurst[i-1] was set
    nexti,      \* per worker of the prange loop, the next index of its chunk
    hstatus,    \* "running", "returned" or the exception raised
    look,       \* two estimator runs side by side on series with a common prefix
    pfin,       \* the input of one particle-filter call
    particles,  \* its particles (log-variance states)
    weights,    \* its weights
    volatilities, \* the estimates appended so far
    rpos,       \* how many returns the loop has consumed
    last,       \* what the last loop iteration did
    rs,         \* two calls of _systematic_resampling: weights, offset drawn, indices returned
    pin,        \* the arrays of one _detect_advanced_candlestick_patterns call
    pres,       \* what that call returned or raised
    fin,        \* the arguments of one directional-predictor call
    fres,       \* what quantum_engine._fpn_drl_predict_enhanced returned
    fsres,      \* what services._fpn_drl_predict returned
    cin,        \* the arguments of one _quantum_chaos_optimization call
    cres,       \* the thresholds and the logistic-map states of that call
    configs,    \* the QuantumEngineConfig table, by primary key
    req,        \* each request's or pipeline run's position and local data
    default_active, \* the model field default of is_active
    mdata,      \* the timestamps of the asset's MarketData rows
    handoff,    \* what one pipeline run handed to the engine and stored
    rtin,       \* the series values one decision is taken on
    rt,         \* the decision, and the decision re-evaluated with the threshold fed back
    ain,        \* the arguments of one trend-splitter call
    ares,       \* hurst_up and hurst_down of that call
    regime,     \* the aggregator's regime conditions on the splitter's last values
    raw,        \* the data dict given to preprocess_data
    processed,  \* the dict preprocess_data returns
    qentry,     \* the status of one RealTimePredictionQueue row
    inv,        \* each process_prediction_queue invocation for that row
    runs,       \* how many times run_quantum_analysis has run for the row
    gate        \* whether run_quantum_analysis forwarded the prediction to signal evaluation

sigVars == <<sigIn, qres, sres>>
engVars == <<eng, svc, lastCall>>
anVars == <<call, pc, ran, outcome>>
hVars == <<hin, hurst, fluct, trace, nexti, hstatus>>
lookVars == <<look>>
pfVars == <<pfin, particles, weights, volatilities, rpos, last>>
rsVars == <<rs>>
patVars == <<pin, pres>>
fpnVars == <<fin, fres, fsres>>
chaosVars == <<cin, cres>>
cfgVars == <<configs, req, default_active>>
mdVars == <<mdata, handoff>>
rtVars == <<rtin, rt>>
trendVars == <<ain, ares>>
regimeVars == <<regime>>
prepVars == <<raw, processed>>
queueVars == <<qentry, inv, runs>>
gateVars == <<gate>>
vars == <<sigIn, qres, sres, eng, svc, lastCall, call, pc, ran, outcome,
          hin, hurst, fluct, trace, nexti, hstatus, look,
          pfin, particles, weights, volatilities, rpos, last,
          rs,
          pin, pres,
          fin, fres, fsres,
          cin, cres,
          configs, req, default_active,
          mdata, handoff,
          rtin, rt,
          ain, ares,
          regime,
          raw, processed,
          qentry, inv, runs,
          gate>>

(***************************************************************************)
(* Floating point helpers                                                  *)
(***************************************************************************)
NaN == -1000000

isnan(x) == x = NaN

FGt(a, b) == a # NaN /\ b # NaN /\ a > b

FLt(a, b) == a # NaN /\ b # NaN /\ a < b

Min(a, b) == IF a < b THEN a ELSE b

Max(a, b) == IF a > b THEN a ELSE b

\* Python's sum() over booleans
BoolSum(bs) == Cardinality({k \in DOMAIN bs : bs[k]})

RECURSIVE SeqSum(_)
SeqSum(s) == IF s = <<>> THEN 0 ELSE Head(s) + SeqSum(Tail(s))

\* a[~np.isnan(a)]
RECURSIVE DropNaN(_)
DropNaN(s) ==
    IF s = <<>> THEN <<>>
    ELSE IF isnan(Head(s)) THEN DropNaN(Tail(s))
         ELSE <<Head(s)>> \o DropNaN(Tail(s))

\* insertion of x into an ascending sequence
RECURSIVE InsertSorted(_, _)
InsertSorted(x, s) ==
    IF s = <<>> THEN <<x>>
    ELSE IF x <= Head(s) THEN <<x>> \o s
         ELSE <<Head(s)>> \o InsertSorted(x, Tail(s))

RECURSIVE SortAsc(_)
SortAsc(s) == IF s = <<>> THEN <<>> ELSE InsertSorted(Head(s), SortAsc(Tail(s)))

(***************************************************************************)
(* np.percentile(a, 75), linear interpolation, times 4 so that it stays an *)
(* integer: the virtual index is 0.75*(m-1) = lo + rem/4.  Of an empty     *)
(* array numpy returns nan.                                                *)
(***************************************************************************)
Percentile75x4(a) ==
    LET s   == SortAsc(a)
        m   == Len(s)
        lo  == (3 * (m - 1)) \div 4
        rem == (3 * (m - 1)) % 4
    IN  IF m = 0 THEN NaN
        ELSE IF rem = 0 THEN 4 * s[lo + 1]
        ELSE s[lo + 1] * (4 - rem) + s[lo + 2] * rem

(***************************************************************************)
(* Fixed-point arithmetic of the estimators.  A float is an integer number *)
(* of 1/Scale; ln, exp and sqrt are computed to that resolution.  Closes   *)
(* are whole price units.                                                  *)
(***************************************************************************)
Scale == 10000
Ln2 == 6931
Ln2x10 == 69315

\* round-toward-zero division, as float division then int() would give
QuoT(a, b) == IF (a >= 0) = (b > 0) THEN a \div b ELSE -((-a) \div b)

RECURSIVE IsqrtIn(_, _, _)
IsqrtIn(x, lo, hi) ==
    IF lo >= hi THEN lo
    ELSE LET mid == (lo + hi + 1) \div 2
         IN  IF mid * mid <= x THEN IsqrtIn(x, mid, hi) ELSE IsqrtIn(x, lo, mid - 1)

\* floor(sqrt(x)) for 0 <= x < 2^31
Isqrt(x) == IsqrtIn(x, 0, Min(x, 46340))

RECURSIVE Log2Floor(_)
Log2Floor(k) == IF k < 2 THEN 0 ELSE 1 + Log2Floor(k \div 2)

RECURSIVE Pow2(_)
Pow2(j) == IF j = 0 THEN 1 ELSE 2 * Pow2(j - 1)

\* ln(m) for m = k / 2^j in [1,2): 2*(z + z^3/3 + z^5/5 + z^7/7), z = (m-1)/(m+1)
LnMantissa(k, p) ==
    LET z  == ((k - p) * Scale) \div (k + p)
        z2 == (z * z) \div Scale
        z3 == (z * z2) \div Scale
        z5 == (z3 * z2) \div Scale
        z7 == (z5 * z2) \div Scale
    IN  2 * (z + z3 \div 3 + z5 \div 5 + z7 \div 7)

\* ln(k) in 1/Scale for an integer k >= 1; k is first brought below 2^17
LnInt(k) ==
    LET j  == Log2Floor(k)
        sh == IF j > 16 THEN j - 16 ELSE 0
        kk == k \div Pow2(sh)
    IN  (j * Ln2x10) \div 10 + LnMantissa(kk, Pow2(j - sh))

\* ln(x / Scale) in 1/Scale, x >= 1
LnFP(x) == LnInt(x) - LnInt(Scale)

\* exp(f / Scale) in 1/Scale for 0 <= f < Ln2, by its Taylor series
ExpFraction(f) ==
    LET t2 == (f * f) \div (2 * Scale)
        t3 == (t2 * f) \div (3 * Scale)
        t4 == (t3 * f) \div (4 * Scale)
        t5 == (t4 * f) \div (5 * Scale)
        t6 == (t5 * f) \div (6 * Scale)
    IN  Scale + f + t2 + t3 + t4 + t5 + t6

\* exp(y / Scale) in 1/Scale for -2 <= y/Scale <= 2
ExpFP(y) ==
    LET k == y \div Ln2
        f == y - k * Ln2
    IN  IF k >= 0 THEN ExpFraction(f) * Pow2(k) ELSE ExpFraction(f) \div Pow2(-k)

\* np.log(a / b) of two closes, in 1/Scale: 2*(z + z^3/3 + z^5/5) with
\* z = (a-b)/(a+b)
LogReturn(a, b) ==
    LET z  == QuoT((a - b) * Scale, a + b)
        z2 == QuoT(z * z, Scale)
        z3 == QuoT(z * z2, Scale)
        z5 == QuoT(z3 * z2, Scale)
    IN  2 * z + QuoT(2 * z3, 3) + QuoT(2 * z5, 5)

(***************************************************************************)
(* Signal aggregator, engines/quantum_engine.py                            *)
(***************************************************************************)
DefaultHurst == 500
DefaultVol == 20
HighVol == 80
BuyThreshold == 3
SellThreshold == 2

Idle == [status |-> "idle", signal |-> "NONE", confidence |-> 0,
         components |-> <<>>, buy_score |-> 0, sell_score |-> 0]

Result(sig, conf, comps, b, s) ==
    [status |-> "done", signal |-> sig, confidence |-> conf,
     components |-> comps, buy_score |-> b, sell_score |-> s]

\* SignalComponents with the semivariance entry left out of the dict
SignalComponentsNoRsv(in) ==
    LET current_hurst      == IF ~isnan(in.hurst) THEN in.hurst ELSE DefaultHurst
        current_hurst_up   == IF ~isnan(in.hurst_up) THEN in.hurst_up ELSE DefaultHurst
        current_hurst_down == IF ~isnan(in.hurst_down) THEN in.hurst_down ELSE DefaultHurst
        current_vol        == IF ~isnan(in.particle_vol[Len(in.particle_vol)])
                              THEN in.particle_vol[Len(in.particle_vol)] ELSE DefaultVol
        current_threshold  == IF ~isnan(in.dynamic_threshold)
                              THEN in.dynamic_threshold ELSE in.hurst_threshold
        p75x4              == Percentile75x4(DropNaN(in.particle_vol))
    IN  [hurst_condition        |-> FGt(current_hurst, current_threshold),
         regime_condition       |-> FGt(current_hurst_up, current_hurst_down),
         volatility_condition   |-> FLt(4 * current_vol, p75x4),
         fpn_condition          |-> in.fpn_signal = "BUY"]

\* the dict built at lines 381-387: the five buy-conditions, nothing else
SignalComponents(in) ==
    LET current_hurst      == IF ~isnan(in.hurst) THEN in.hurst ELSE DefaultHurst
        current_hurst_up   == IF ~isnan(in.hurst_up) THEN in.hurst_up ELSE DefaultHurst
        current_hurst_down == IF ~isnan(in.hurst_down) THEN in.hurst_down ELSE DefaultHurst
        current_vol        == IF ~isnan(in.particle_vol[Len(in.particle_vol)])
                              THEN in.particle_vol[Len(in.particle_vol)] ELSE DefaultVol
        current_threshold  == IF ~isnan(in.dynamic_threshold)
                              THEN in.dynamic_threshold ELSE in.hurst_threshold
        p75x4              == Percentile75x4(DropNaN(in.particle_vol))
    IN  [hurst_condition        |-> FGt(current_hurst, current_threshold),
         regime_condition       |-> FGt(current_hurst_up, current_hurst_down),
         volatility_condition   |-> FLt(4 * current_vol, p75x4),
         fpn_condition          |-> in.fpn_signal = "BUY",
         semivariance_condition |-> FGt(in.rsv_up, in.rsv_down)]

\* the anonymous list summed at lines 390-395
SellConditions(in) ==
    LET current_hurst      == IF ~isnan(in.hurst) THEN in.hurst ELSE DefaultHurst
        current_hurst_up   == IF ~isnan(in.hurst_up) THEN in.hurst_up ELSE DefaultHurst
        current_hurst_down == IF ~isnan(in.hurst_down) THEN in.hurst_down ELSE DefaultHurst
        current_vol        == IF ~isnan(in.particle_vol[Len(in.particle_vol)])
                              THEN in.particle_vol[Len(in.particle_vol)] ELSE DefaultVol
        current_threshold  == IF ~isnan(in.dynamic_threshold)
                              THEN in.dynamic_threshold ELSE in.hurst_threshold
    IN  <<FLt(current_hurst, 1000 - current_threshold),
          FGt(current_hurst_down, current_hurst_up),
          in.fpn_signal = "SELL",
          FGt(current_vol, HighVol)>>

BuyConfidence(buy_score) == Min(95, 50 + buy_score * 15)

\* a SELL confidence one tenth lower
SellConfidenceLow(sell_score) == Min(85, 30 + sell_score * 20)

SellConfidence(sell_score) == Min(85, 40 + sell_score * 20)

\* Decide with the BUY bar one condition lower
DecideBuyAtTwo(buy_score, sell_score) ==
    IF buy_score >= BuyThreshold - 1 THEN "BUY"
    ELSE IF sell_score >= SellThreshold THEN "SELL"
    ELSE "HOLD"

\* Decide with the two branches swapped
DecideSellFirst(buy_score, sell_score) ==
    IF sell_score >= SellThreshold THEN "SELL"
    ELSE IF buy_score >= BuyThreshold THEN "BUY"
    ELSE "HOLD"

Decide(buy_score, sell_score) ==
    IF buy_score >= BuyThreshold THEN "BUY"
    ELSE IF sell_score >= SellThreshold THEN "SELL"
    ELSE "HOLD"

generate_quantum_signal(in) ==
    IF in.n = 0 THEN Result("HOLD", 50, <<>>, 0, 0)
    ELSE LET components == SignalComponents(in)
             buy_score  == BoolSum(components)
             sell_score == BoolSum(SellConditions(in))
             signal     == Decide(buy_score, sell_score)
         IN  Result(signal,
                    CASE signal = "BUY"  -> BuyConfidence(buy_score)
                      [] signal = "SELL" -> SellConfidence(sell_score)
                      [] OTHER           -> 50,
                    components, buy_score, sell_score)

(***************************************************************************)
(* Signal aggregator, services.py.  It receives the last values as scalars *)
(* (None when the series is empty) and answers HOLD as soon as one of them *)
(* is None or nan.  np.percentile([particle_vol], 75) is particle_vol.     *)
(***************************************************************************)
Truthy(x) == x # 0

ServicesBuyConditions(in) ==
    LET particle_vol  == in.particle_vol[Len(in.particle_vol)]
        vol_threshold == particle_vol
    IN  <<FGt(in.hurst, in.dynamic_threshold),
          IF Truthy(in.hurst_up) /\ Truthy(in.hurst_down)
              THEN FGt(in.hurst_up, in.hurst_down) ELSE FALSE,
          FLt(particle_vol, vol_threshold),
          in.fpn_signal = "BUY">>

ServicesSellConditions(in) ==
    <<FLt(in.hurst, 1000 - in.dynamic_threshold),
      IF Truthy(in.hurst_up) /\ Truthy(in.hurst_down)
          THEN FGt(in.hurst_down, in.hurst_up) ELSE FALSE,
      in.fpn_signal = "SELL">>

ServicesBuyConfidence(buy_score) == Min(90, 50 + buy_score * 10)

ServicesSellConfidence(sell_score) == Min(80, 40 + sell_score * 20)

generate_trading_signal(in) ==
    IF \/ in.n = 0
       \/ \E v \in {in.hurst, in.hurst_up, in.hurst_down,
                    in.particle_vol[Len(in.particle_vol)],
                    in.dynamic_threshold} : isnan(v)
    THEN Result("HOLD", 50, <<>>, 0, 0)
    ELSE LET buy_score  == BoolSum(ServicesBuyConditions(in))
             sell_score == BoolSum(ServicesSellConditions(in))
             signal     == Decide(buy_score, sell_score)
         IN  Result(signal,
                    CASE signal = "BUY"  -> ServicesBuyConfidence(buy_score)
                      [] signal = "SELL" -> ServicesSellConfidence(sell_score)
                      [] OTHER           -> 50,
                    <<>>, buy_score, sell_score)

(***************************************************************************)
(* Engine construction and initialize()                                    *)
(***************************************************************************)
MinWindow == 10
MaxWindow == 50
MinParticles == 50
MaxParticles == 500
MinHurstThreshold == 500
MaxHurstThreshold == 800

NoConfig == [is_none |-> TRUE, base_window_size |-> 0, particle_count |-> 0,
             hurst_threshold |-> 0]

Config(w, p, h) == [is_none |-> FALSE, base_window_size |-> w,
                    particle_count |-> p, hurst_threshold |-> h]

\* QuantumTradingEngine.__init__ of engines/quantum_engine.py
NewEngine == [config |-> NoConfig, base_window |-> 20, n_particles |-> 100,
              hurst_threshold |-> 650, is_initialized |-> FALSE]

\* _validate_config with the lower particle bound off by one
validate_config_loose(e) ==
    /\ ~e.config.is_none
    /\ ~(e.base_window < MinWindow \/ e.base_window > MaxWindow)
    /\ ~(e.n_particles < MinParticles - 1 \/ e.n_particles > MaxParticles)
    /\ ~(e.hurst_threshold < MinHurstThreshold \/ e.hurst_threshold > MaxHurstThreshold)

validate_config(e) ==
    /\ ~e.config.is_none
    /\ ~(e.base_window < MinWindow \/ e.base_window > MaxWindow)
    /\ ~(e.n_particles < MinParticles \/ e.n_particles > MaxParticles)
    /\ ~(e.hurst_threshold < MinHurstThreshold \/ e.hurst_threshold > MaxHurstThreshold)

(***************************************************************************)
(* initialize(config): the fields are assigned first, then validated.  A   *)
(* None config is stored, the read of config.base_window_size raises and   *)
(* the except clause returns False.                                        *)
(***************************************************************************)
initialize(e, config) ==
    IF config.is_none
    THEN [eng |-> [e EXCEPT !.config = config], ret |-> "False"]
    ELSE LET a == [e EXCEPT !.config = config,
                            !.base_window = config.base_window_size,
                            !.n_particles = config.particle_count,
                            !.hurst_threshold = config.hurst_threshold]
         IN  IF ~validate_config(a)
             THEN [eng |-> a, ret |-> "False"]
             ELSE [eng |-> [a EXCEPT !.is_initialized = TRUE], ret |-> "True"]

\* QuantumTradingEngine.__init__(config) of services.py: no validation
services_init(config) ==
    [constructed |-> TRUE, config |-> config,
     base_window |-> config.base_window_size,
     n_particles |-> config.particle_count,
     hurst_threshold |-> config.hurst_threshold]

NoService == [constructed |-> FALSE, config |-> NoConfig, base_window |-> 0,
              n_particles |-> 0, hurst_threshold |-> 0]

NoCall == [how |-> "none", config |-> NoConfig, outcome |-> "none"]

WindowVals == {MinWindow - 1, MinWindow, MaxWindow, MaxWindow + 1}
ParticleVals == {MinParticles - 1, MinParticles, MaxParticles, MaxParticles + 1}
HurstThresholdVals == {MinHurstThreshold - 10, MinHurstThreshold,
                       MaxHurstThreshold, MaxHurstThreshold + 10}

\* the default configuration of tasks.py:34-39 with one field moved to a bound
\* or just beyond it, and the configuration with every field out of range
Configs ==
    {Config(w, 100, 650) : w \in WindowVals}
    \cup {Config(20, p, 650) : p \in ParticleVals}
    \cup {Config(20, 100, h) : h \in HurstThresholdVals}
    \cup {Config(MinWindow - 1, MaxParticles + 1, MaxHurstThreshold + 10)}

EngIdle == eng = NewEngine /\ svc = NoService /\ lastCall = NoCall

\* engine.initialize(config) on the engines/quantum_engine.py instance
Initialize ==
    \E config \in Configs \cup {NoConfig} :
        LET r == initialize(eng, config)
        IN  /\ eng' = r.eng
            /\ lastCall' = [how |-> "initialize", config |-> config, outcome |-> r.ret]
            /\ UNCHANGED <<svc, sigVars, anVars, hVars, lookVars, pfVars, rsVars, patVars, fpnVars, chaosVars, cfgVars, mdVars, rtVars, trendVars, regimeVars, prepVars, queueVars, gateVars>>

\* PredictionOrchestrator.run_prediction_pipeline: QuantumTradingEngine(config)
\* is the services.py class
ServicesConstruct ==
    \E config \in Configs :
        /\ svc' = services_init(config)
        /\ lastCall' = [how |-> "services", config |-> config, outcome |-> "constructed"]
        /\ UNCHANGED <<eng, sigVars, anVars, hVars, lookVars, pfVars, rsVars, patVars, fpnVars, chaosVars, cfgVars, mdVars, rtVars, trendVars, regimeVars, prepVars, queueVars, gateVars>>

\* tasks.run_quantum_analysis: QuantumTradingEngine(engine_config) is the
\* engines/quantum_engine.py class, whose __init__ takes no config: TypeError
TaskConstruct ==
    \E config \in Configs :
        /\ lastCall' = [how |-> "task", config |-> config, outcome |-> "TypeError"]
        /\ UNCHANGED <<eng, svc, sigVars, anVars, hVars, lookVars, pfVars, rsVars, patVars, fpnVars, chaosVars, cfgVars, mdVars, rtVars, trendVars, regimeVars, prepVars, queueVars, gateVars>>

NextEngine == Initialize \/ ServicesConstruct \/ TaskConstruct

(***************************************************************************)
(* Adaptive Hurst estimator, _calculate_ma_dfa_optimized.  Arrays are      *)
(* sequences; index i of the code is position i + 1.                       *)
(***************************************************************************)
VolWindow == 20
Unwritten == -2000000
ClipMin == 10
ClipMax == 50
FNaN == <<NaN, 1>>

At(s, i) == s[i + 1]

\* s[a:b] of Python, negative bounds counted from the end
PySlice(s, a, b) ==
    LET n  == Len(s)
        lo == IF a < 0 THEN Max(0, n + a) ELSE Min(a, n)
        hi == IF b < 0 THEN Max(0, n + b) ELSE Min(b, n)
    IN  IF lo >= hi THEN <<>> ELSE SubSeq(s, lo + 1, hi)

\* _calculate_log_returns: np.log(prices / np.roll(prices, 1)), returns[0] = 0
calculate_log_returns(prices) ==
    [k \in 1..Len(prices) |->
        IF k = 1 THEN 0 ELSE LogReturn(prices[k], prices[k - 1])]

RECURSIVE SumSq(_)
SumSq(s) == IF s = <<>> THEN 0 ELSE Head(s) * Head(s) + SumSq(Tail(s))

\* np.std(w), population standard deviation
Std(w) ==
    LET m == Len(w)
    IN  Isqrt(m * SumSq(w) - SeqSum(w) * SeqSum(w)) \div m

\* lines 157-159: zero until index 20, then the std of the 20 returns before i
RollingVolatility(returns) ==
    [k \in 1..Len(returns) |->
        IF k - 1 < VolWindow THEN 0
        ELSE Std(PySlice(returns, Max(0, k - 1 - VolWindow), k - 1))]

\* line 161: -volatility * np.log(volatility + 1e-10); -0.0 where it is 0
EntropyOf(v) == IF v = 0 THEN 0 ELSE QuoT(-(v * LnFP(v)), Scale)

Entropy(volatility) == [k \in 1..Len(volatility) |-> EntropyOf(volatility[k])]

\* np.polyfit(t, segment, 1) and the mean of the squared residuals, exactly:
\* (Dyy*Dxx - Dxy^2) / (w^2 * Dxx), the segment taken relative to its first
\* close (the residuals do not depend on the level)
MeanSquaredResidual(segment) ==
    LET w   == Len(segment)
        d   == [k \in 1..w |-> segment[k] - segment[1]]
        St  == (w * (w - 1)) \div 2
        Stt == ((w - 1) * w * (2 * w - 1)) \div 6
        Sy  == SeqSum(d)
        Syy == SumSq(d)
        Sty == SeqSum([k \in 1..w |-> (k - 1) * d[k]])
        Dxx == w * Stt - St * St
        Dxy == w * Sty - St * Sy
        Dyy == w * Syy - Sy * Sy
    IN  <<Dyy * Dxx - Dxy * Dxy, w * w * Dxx>>

\* np.log(fluctuation) / np.log(window), fluctuation^2 = q[1] / q[2] > 0
HurstOf(q, window) ==
    QuoT((LnInt(q[1]) - LnInt(q[2])) * (Scale \div 2), LnInt(window))

\* lines 174-178: the adaptive window; "ValueError" is int() of a nan (0/0
\* when every entropy is zero), "OverflowError" int() of an infinity
\* (1 / fractal_dim with fractal_dim = 0).  The exponent is cut to [-2, 2]:
\* beyond it the clip to [10, 50] decides alone.
AdaptiveWindow(entropy_i, entropy_sum, n, fractal_dim, base_window) ==
    IF isnan(entropy_i) THEN [status |-> "ok", window |-> base_window]
    ELSE IF entropy_sum = 0 THEN [status |-> "ValueError", window |-> 0]
    ELSE IF fractal_dim = 0 THEN [status |-> "OverflowError", window |-> 0]
    ELSE LET ratio == QuoT(entropy_i * n * Scale, entropy_sum)
             y     == -ratio + QuoT(Scale * Scale, fractal_dim)
             yc    == Max(-2 * Scale, Min(2 * Scale, y))
             w     == (base_window * ExpFP(yc)) \div Scale
         IN  [status |-> "ok", window |-> Max(ClipMin, Min(ClipMax, w))]

NoEntry == [status |-> "ok", window |-> NaN, seglen |-> 0, hurst |-> NaN,
            fluct |-> FNaN]

\* the loop body with the guard of services.py:106, i < window - 1
ma_dfa_at_window_minus_one(i, prev, series, entropy, base_window) ==
    IF i = 0 THEN NoEntry
    ELSE
    LET fractal_dim == IF ~isnan(prev) THEN 2 * Scale - prev ELSE 2 * Scale
        aw == AdaptiveWindow(At(entropy, i), SeqSum(entropy), Len(entropy),
                             fractal_dim, base_window)
        window == aw.window
    IN  IF aw.status # "ok" THEN [NoEntry EXCEPT !.status = aw.status]
        ELSE IF i < window - 1
        THEN [NoEntry EXCEPT !.window = window]
        ELSE LET segment == PySlice(series, i - window, i)
             IN  IF segment = <<>>
                 THEN [NoEntry EXCEPT !.status = "TypeError", !.window = window]
                 ELSE LET q == MeanSquaredResidual(segment)
                      IN  [status |-> "ok", window |-> window,
                           seglen |-> Len(segment),
                           hurst |-> IF q[1] > 0 THEN HurstOf(q, window) ELSE NaN,
                           fluct |-> q]

\* the loop body, lines 165-193, for index i with hurst[i - 1] = prev
ma_dfa_at(i, prev, series, entropy, base_window) ==
    IF i = 0 THEN NoEntry
    ELSE
    LET fractal_dim == IF ~isnan(prev) THEN 2 * Scale - prev ELSE 2 * Scale
        aw == AdaptiveWindow(At(entropy, i), SeqSum(entropy), Len(entropy),
                             fractal_dim, base_window)
        window == aw.window
    IN  IF aw.status # "ok" THEN [NoEntry EXCEPT !.status = aw.status]
        ELSE IF i < window
        THEN [NoEntry EXCEPT !.window = window]
        ELSE LET segment == PySlice(series, i - window, i)
                 q       == MeanSquaredResidual(segment)
             IN  [status |-> "ok", window |-> window, seglen |-> Len(segment),
                  hurst |-> IF q[1] > 0 THEN HurstOf(q, window) ELSE NaN,
                  fluct |-> q]

(***************************************************************************)
(* One _calculate_ma_dfa_optimized call.  The index loop is a numba prange *)
(* under parallel=True: every worker takes a contiguous chunk of the range *)
(* and walks it in order, the workers interleave freely.  hurst comes from *)
(* np.empty, so a slot read before it is set holds an arbitrary float.     *)
(***************************************************************************)
SeriesLen == 24
NumWorkers == 2

SeriesKinds == {"flat", "line", "zigzag", "wave", "jump", "quiet", "burst"}

Close(kind, i) ==
    CASE kind = "flat"   -> 100
      [] kind = "line"   -> 100 + i
      [] kind = "zigzag" -> 100 + 2 * (i % 2)
      [] kind = "wave"   -> 100 + ((i * i) % 5)
      [] kind = "jump"   -> 100 + 2 * (i % 2) + (IF i >= SeriesLen - 2 THEN 6 ELSE 0)
      [] kind = "quiet"  -> 100 + (IF i = 15 THEN 1 ELSE 0)
      [] kind = "burst"  -> 100 + (IF i = 15 THEN 1 ELSE 0)
                                + (IF i = SeriesLen - 3 THEN 30 ELSE 0)

Series(kind) == [k \in 1..SeriesLen |-> Close(kind, k - 1)]

BaseWindows == {10, 12, 20}

Garbage == {NaN, -30000, 15000}

HurstInput(series, base_window) ==
    LET volatility == RollingVolatility(calculate_log_returns(series))
    IN  [series |-> series, base_window |-> base_window,
         volatility |-> volatility, entropy |-> Entropy(volatility)]

NoHurstInput ==
    [series |-> <<>>, base_window |-> 0, volatility |-> <<>>, entropy |-> <<>>]

NoTrace == [done |-> FALSE, window |-> NaN, seglen |-> 0, prev_written |-> FALSE]

ChunkStart(t, n) == (t * n) \div NumWorkers

HIdle ==
    /\ hin = NoHurstInput /\ hurst = <<>> /\ fluct = <<>> /\ trace = <<>>
    /\ nexti = <<>> /\ hstatus = "idle"

InitHurst ==
    /\ \E kind \in SeriesKinds, b \in BaseWindows : hin = HurstInput(Series(kind), b)
    /\ hurst = [k \in 1..SeriesLen |-> Unwritten]
    /\ fluct = [k \in 1..SeriesLen |-> <<Unwritten, 1>>]
    /\ trace = [k \in 1..SeriesLen |-> NoTrace]
    /\ nexti = [t \in 1..NumWorkers |-> ChunkStart(t - 1, SeriesLen)]
    /\ hstatus = "running"

\* one iteration of the loop body by worker t
HurstIter ==
    /\ hstatus = "running"
    /\ \E t \in 1..NumWorkers :
        /\ nexti[t] < ChunkStart(t, Len(hin.series))
        /\ LET i == nexti[t]
               slot == IF i = 0 THEN NaN ELSE At(hurst, i - 1)
           IN  \E prev \in (IF slot = Unwritten THEN Garbage ELSE {slot}) :
                  LET e == ma_dfa_at(i, prev, hin.series, hin.entropy, hin.base_window)
                  IN  IF e.status # "ok"
                      THEN /\ hstatus' = e.status
                           /\ UNCHANGED <<hurst, fluct, trace, nexti>>
                      ELSE /\ hurst' = [hurst EXCEPT ![i + 1] = e.hurst]
                           /\ fluct' = [fluct EXCEPT ![i + 1] = e.fluct]
                           /\ trace' = [trace EXCEPT ![i + 1] =
                                  [done |-> TRUE, window |-> e.window,
                                   seglen |-> e.seglen,
                                   prev_written |-> (i = 0 \/ slot # Unwritten)]]
                           /\ nexti' = [nexti EXCEPT ![t] = i + 1]
                           /\ hstatus' = hstatus
    /\ UNCHANGED <<hin, sigVars, engVars, anVars, lookVars, pfVars, rsVars, patVars, fpnVars, chaosVars, cfgVars, mdVars, rtVars, trendVars, regimeVars, prepVars, queueVars, gateVars>>

\* line 195: every worker is through its chunk
HurstReturn ==
    /\ hstatus = "running"
    /\ \A t \in 1..NumWorkers : nexti[t] = ChunkStart(t, Len(hin.series))
    /\ hstatus' = "returned"
    /\ UNCHANGED <<hin, hurst, fluct, trace, nexti, sigVars, engVars, anVars, lookVars, pfVars, rsVars, patVars, fpnVars, chaosVars, cfgVars, mdVars, rtVars, trendVars, regimeVars, prepVars, queueVars, gateVars>>

NextHurst == HurstIter \/ HurstReturn

(***************************************************************************)
(* analyze(): the control flow of one call                                 *)
(***************************************************************************)
RequiredDataPoints == 50

Fields == {"closes", "opens", "highs", "lows", "volumes"}

\* validate_data: required_keys leaves 'volumes' out; only closes is measured
validate_data(data) ==
    /\ \A key \in {"closes", "opens", "highs", "lows"} : key \in data.keys
    /\ ~(data.n < RequiredDataPoints)

\* the numbered steps of QuantumTradingEngine.analyze, lines 63-90
Pipeline == <<"ma_dfa", "asymmetric_ma_dfa", "particle_volatility",
              "chaos_optimization", "fpn_drl", "candlestick", "final_signal">>

AfterStep(step) ==
    IF \E k \in 1..(Len(Pipeline) - 1) : Pipeline[k] = step
    THEN Pipeline[(CHOOSE k \in 1..Len(Pipeline) : Pipeline[k] = step) + 1]
    ELSE "compile"

NoAnalyze == [impl |-> "none", keys |-> {}, n |-> 0, closes |-> "none"]

\* the closes of a call: all equal, or a series no estimator step fails on
ClosesKinds == {"constant", "varied"}

ConstantSeries(n) == [k \in 1..n |-> 100]

\* the estimator run index by index in loop order: "ok" or what it raises
RECURSIVE MaDfaStatus(_, _, _)
MaDfaStatus(inp, i, prev) ==
    IF i >= Len(inp.series) THEN "ok"
    ELSE LET e == ma_dfa_at(i, prev, inp.series, inp.entropy, inp.base_window)
         IN  IF e.status # "ok" THEN e.status ELSE MaDfaStatus(inp, i + 1, e.hurst)

\* how the step at pc ends for the call c of a freshly constructed engine
StepOutcome(c, step) ==
    IF step = "ma_dfa" /\ c.closes = "constant"
    THEN MaDfaStatus(HurstInput(ConstantSeries(c.n), NewEngine.base_window), 0, NaN)
    ELSE "ok"

AnIdle == call = NoAnalyze /\ pc = "idle" /\ ran = {} /\ outcome = "none"

Lengths == {0, RequiredDataPoints - 1, RequiredDataPoints, RequiredDataPoints + 1,
            RequiredDataPoints + 10}

\* engine.analyze(data) / engine.analyze(closes=..., ...): a call starts
AnalyzeCall ==
    /\ pc = "idle"
    /\ \E impl \in {"engine", "services"}, keys \in SUBSET Fields, n \in Lengths,
          closes \in ClosesKinds :
          call' = [impl |-> impl, keys |-> keys, n |-> n, closes |-> closes]
    /\ pc' = "called"
    /\ UNCHANGED <<ran, outcome, sigVars, engVars, hVars, lookVars, pfVars, rsVars, patVars, fpnVars, chaosVars, cfgVars, mdVars, rtVars, trendVars, regimeVars, prepVars, queueVars, gateVars>>

\* engines/quantum_engine.py:52-53
EngineValidate ==
    /\ pc = "called" /\ call.impl = "engine"
    /\ IF validate_data(call)
       THEN pc' = "preprocess" /\ outcome' = outcome
       ELSE pc' = "done" /\ outcome' = "ValueError"
    /\ UNCHANGED <<call, ran, sigVars, engVars, hVars, lookVars, pfVars, rsVars, patVars, fpnVars, chaosVars, cfgVars, mdVars, rtVars, trendVars, regimeVars, prepVars, queueVars, gateVars>>

\* engines/quantum_engine.py:57-61: preprocess_data and the log returns
EnginePreprocess ==
    /\ pc = "preprocess"
    /\ pc' = Pipeline[1]
    /\ UNCHANGED <<call, ran, outcome, sigVars, engVars, hVars, lookVars, pfVars, rsVars, patVars, fpnVars, chaosVars, cfgVars, mdVars, rtVars, trendVars, regimeVars, prepVars, queueVars, gateVars>>

\* one of the seven estimator steps; what it raises is logged and re-raised
\* by the except clause at lines 124-126
EngineStep ==
    /\ call.impl = "engine"
    /\ \E k \in 1..Len(Pipeline) : pc = Pipeline[k]
    /\ ran' = ran \cup {pc}
    /\ IF StepOutcome(call, pc) = "ok"
       THEN pc' = AfterStep(pc) /\ outcome' = outcome
       ELSE pc' = "done" /\ outcome' = StepOutcome(call, pc)
    /\ UNCHANGED <<call, sigVars, engVars, hVars, lookVars, pfVars, rsVars, patVars, fpnVars, chaosVars, cfgVars, mdVars, rtVars, trendVars, regimeVars, prepVars, queueVars, gateVars>>

\* engines/quantum_engine.py:93-120: the result dict reads timezone.now(),
\* a name the module never imports; the NameError is logged and re-raised
EngineCompile ==
    /\ pc = "compile"
    /\ pc' = "done" /\ outcome' = "NameError"
    /\ UNCHANGED <<call, ran, sigVars, engVars, hVars, lookVars, pfVars, rsVars, patVars, fpnVars, chaosVars, cfgVars, mdVars, rtVars, trendVars, regimeVars, prepVars, queueVars, gateVars>>

\* services.py:26-37: the six arrays are required parameters, nothing is
\* validated, and self._calculate_volatility is not a method of the class
ServicesAnalyze ==
    /\ pc = "called" /\ call.impl = "services"
    /\ pc' = "done"
    /\ outcome' = IF call.keys # Fields THEN "TypeError" ELSE "AttributeError"
    /\ UNCHANGED <<call, ran, sigVars, engVars, hVars, lookVars, pfVars, rsVars, patVars, fpnVars, chaosVars, cfgVars, mdVars, rtVars, trendVars, regimeVars, prepVars, queueVars, gateVars>>

\* the caller starts over with another call
AnalyzeAgain ==
    /\ pc = "done"
    /\ call' = NoAnalyze /\ pc' = "idle" /\ ran' = {} /\ outcome' = "none"
    /\ UNCHANGED <<sigVars, engVars, hVars, lookVars, pfVars, rsVars, patVars, fpnVars, chaosVars, cfgVars, mdVars, rtVars, trendVars, regimeVars, prepVars, queueVars, gateVars>>

NextAnalyze ==
    \/ AnalyzeCall \/ EngineValidate \/ EnginePreprocess \/ EngineStep
    \/ EngineCompile \/ ServicesAnalyze \/ AnalyzeAgain

(***************************************************************************)
(* Aggregator calls: the arguments of a call are drawn once, then each of  *)
(* the two implementations is applied to them.                             *)
(***************************************************************************)
HistLen == 2

HurstVals == {NaN, 300, 700}
HurstUpVals == {NaN, 0, 300, 700}
HurstDownVals == {NaN, 300, 700}
VolVals == {NaN, 20, 90, 100}
ThresholdVals == {<<NaN, 650>>, <<500, 500>>, <<650, 650>>, <<655, 650>>, <<800, 800>>}
RsvVals == {<<0, 0>>, <<4, 1>>, <<1, 4>>}
Signals == {"BUY", "SELL", "HOLD"}

EmptyInput ==
    [n |-> 0, hurst |-> NaN, hurst_up |-> NaN, hurst_down |-> NaN,
     particle_vol |-> <<>>, fpn_signal |-> "HOLD", dynamic_threshold |-> NaN,
     hurst_threshold |-> 650, rsv_up |-> 0, rsv_down |-> 0]

SignalInputs ==
    {EmptyInput} \cup
    { [n |-> HistLen, hurst |-> h, hurst_up |-> hu, hurst_down |-> hd,
       particle_vol |-> pv, fpn_signal |-> f, dynamic_threshold |-> th[1],
       hurst_threshold |-> th[2], rsv_up |-> r[1], rsv_down |-> r[2]] :
         h \in HurstVals, hu \in HurstUpVals, hd \in HurstDownVals,
         pv \in [1..HistLen -> VolVals], f \in Signals,
         th \in ThresholdVals, r \in RsvVals }

SigIdle == sigIn = EmptyInput /\ qres = Idle /\ sres = Idle

QuantumSignal ==
    /\ qres.status = "idle"
    /\ qres' = generate_quantum_signal(sigIn)
    /\ UNCHANGED <<sigIn, sres, engVars, anVars, hVars, lookVars, pfVars, rsVars, patVars, fpnVars, chaosVars, cfgVars, mdVars, rtVars, trendVars, regimeVars, prepVars, queueVars, gateVars>>

TradingSignal ==
    /\ sres.status = "idle"
    /\ sres' = generate_trading_signal(sigIn)
    /\ UNCHANGED <<sigIn, qres, engVars, anVars, hVars, lookVars, pfVars, rsVars, patVars, fpnVars, chaosVars, cfgVars, mdVars, rtVars, trendVars, regimeVars, prepVars, queueVars, gateVars>>

GateThreshold == 70

NoGate == [status |-> "idle", forwarded |-> FALSE]

GateIdle == gate = NoGate

\* tasks.py:83: final_signal in ['BUY', 'SELL'] and signal_confidence > 0.7
StrongSignal(prediction) ==
    prediction.signal \in {"BUY", "SELL"} /\ prediction.confidence > GateThreshold

\* run_quantum_analysis after the engine's result is stored: the gate and
\* evaluate_trading_signal.delay
ForwardSignal ==
    /\ qres.status = "done"
    /\ gate.status = "idle"
    /\ gate' = [status |-> "done", forwarded |-> StrongSignal(qres)]
    /\ UNCHANGED <<sigVars, engVars, anVars, hVars, lookVars, pfVars, rsVars, patVars,
                   fpnVars, chaosVars, cfgVars, mdVars, rtVars, trendVars, regimeVars,
                   prepVars, queueVars>>

NextSignal == QuantumSignal \/ TradingSignal \/ ForwardSignal

(***************************************************************************)
(* Two _calculate_ma_dfa_optimized calls side by side, index by index in   *)
(* loop order, on two series whose first `prefix` bars are the same.       *)
(***************************************************************************)
RECURSIVE CommonPrefix(_, _)
CommonPrefix(s, t) ==
    IF s = <<>> \/ t = <<>> \/ Head(s) # Head(t) THEN 0
    ELSE 1 + CommonPrefix(Tail(s), Tail(t))

\* what the call holds for index i once the loop body has run for it
EntryAt(inp, i, prev) ==
    LET e == ma_dfa_at(i, prev, inp.series, inp.entropy, inp.base_window)
    IN  [status |-> e.status, volatility |-> At(inp.volatility, i),
         entropy |-> At(inp.entropy, i), window |-> e.window,
         hurst |-> e.hurst, fluct |-> e.fluct]

NoLookEntry ==
    [status |-> "ok", volatility |-> 0, entropy |-> 0, window |-> NaN,
     hurst |-> NaN, fluct |-> FNaN]

NoLook ==
    [a |-> NoHurstInput, b |-> NoHurstInput, prefix |-> 0, i |-> 0,
     ea |-> NoLookEntry, eb |-> NoLookEntry, status |-> "idle"]

LookIdle == look = NoLook

InitLook ==
    \E ka \in SeriesKinds, kb \in SeriesKinds, base \in BaseWindows :
        /\ ka # kb
        /\ look = [a |-> HurstInput(Series(ka), base),
                   b |-> HurstInput(Series(kb), base),
                   prefix |-> CommonPrefix(Series(ka), Series(kb)),
                   i |-> 0, ea |-> NoLookEntry, eb |-> NoLookEntry,
                   status |-> "running"]

\* the loop body for index look.i, in both calls
LookIter ==
    /\ look.status = "running"
    /\ look.i < Len(look.a.series)
    /\ LET ea == EntryAt(look.a, look.i, look.ea.hurst)
           eb == EntryAt(look.b, look.i, look.eb.hurst)
       IN  look' = [look EXCEPT !.i = look.i + 1, !.ea = ea, !.eb = eb,
                       !.status = IF ea.status # "ok" THEN ea.status
                                  ELSE IF eb.status # "ok" THEN eb.status
                                  ELSE "running"]
    /\ UNCHANGED <<sigVars, engVars, anVars, hVars, pfVars, rsVars, patVars, fpnVars, chaosVars, cfgVars, mdVars, rtVars, trendVars, regimeVars, prepVars, queueVars, gateVars>>

LookReturn ==
    /\ look.status = "running"
    /\ look.i = Len(look.a.series)
    /\ look' = [look EXCEPT !.status = "returned"]
    /\ UNCHANGED <<sigVars, engVars, anVars, hVars, pfVars, rsVars, patVars, fpnVars, chaosVars, cfgVars, mdVars, rtVars, trendVars, regimeVars, prepVars, queueVars, gateVars>>

NextLook == LookIter \/ LookReturn

(***************************************************************************)
(* Particle filter: _run_particle_filter of the engine and the loop of     *)
(* services._calculate_particle_volatility.  Particles and returns are in  *)
(* 1/Scale; a weight is a whole number of 1/WeightDen, and WeightDen is a  *)
(* multiple of every particle count used, so that 1/n is a weight.  The    *)
(* 1e-10 added to the scale and to the weight sum is below the resolution; *)
(* it shows only where the sum is zero.  The random draws (the initial     *)
(* particles, the Student-t noise, the resampling offset) are inputs of    *)
(* the step.                                                               *)
(***************************************************************************)
NumParticles == 3
NumReturns == 3
WeightDen == 12000
TPdfC == 3796
TypicalNoise == 100
TailNoise == 40000

\* np.ones(n) / n
UniformWeights(n) == [k \in 1..n |-> WeightDen \div n]

\* np.sqrt(np.exp(p / 2)), computed as exp(p / 4)
ScaleOf(p) == ExpFP(QuoT(p, 4))

\* t.pdf(r, df=5, loc=0, scale=s) = c / s * (1 + (r/s)^2 / 5)^(-3)
TPdf(r, s) ==
    LET q  == QuoT(r * Scale, s)
        u  == Scale + ((q * q) \div Scale) \div 5
        u3 == (((u * u) \div Scale) * u) \div Scale
    IN  (((TPdfC * Scale) \div s) * Scale) \div u3

\* weights *= likelihood; weights /= np.sum(weights) + 1e-10
UpdateWeights(w, likelihood) ==
    LET t   == [k \in 1..Len(w) |-> (w[k] * likelihood[k]) \div Scale]
        sum == SeqSum(t)
    IN  [k \in 1..Len(w) |-> IF sum = 0 THEN 0 ELSE (t[k] * WeightDen) \div sum]

\* 1 / np.sum(weights**2) < n / 2; of a zero sum the quotient is inf
EssLow(w, n) == SumSq(w) # 0 /\ 2 * WeightDen * WeightDen < n * SumSq(w)

CumSum(w) == [k \in 1..Len(w) |-> SeqSum(SubSeq(w, 1, k))]

\* while u > cumulative_sum[i] and i < n - 1: i += 1
RECURSIVE Advance(_, _, _)
Advance(i, u, cumulative_sum) ==
    IF u > At(cumulative_sum, i) /\ i < Len(cumulative_sum) - 1
    THEN Advance(i + 1, u, cumulative_sum)
    ELSE i

\* the for loop over j, from j on with the running i and u
RECURSIVE ResampleFrom(_, _, _, _, _)
ResampleFrom(j, i, u, cumulative_sum, step) ==
    IF j = Len(cumulative_sum) THEN <<>>
    ELSE LET i2 == Advance(i, u, cumulative_sum)
         IN  <<i2>> \o ResampleFrom(j + 1, i2, u + step, cumulative_sum, step)

\* a resampler whose result also depends on whether it ran before
systematic_resampling_stateful(w, u) ==
    ResampleFrom(0, 0, u + (IF rs.first.done THEN (WeightDen \div Len(w)) \div 2 ELSE 0),
                 CumSum(w), WeightDen \div Len(w))

\* _systematic_resampling with u the np.random.uniform(0, step) it draws
systematic_resampling(w, u) ==
    ResampleFrom(0, 0, u, CumSum(w), WeightDen \div Len(w))

\* particles[indices]
Select(p, indices) == [k \in 1..Len(indices) |-> At(p, indices[k])]

\* the weights the loop goes on with after a resampling
weights_kept(w, n) == w

weights_after_resampling(w, n) == UniformWeights(n)

\* np.mean(np.exp(particles / 2))
MeanVol(p) == SeqSum([k \in 1..Len(p) |-> ExpFP(QuoT(p[k], 2))]) \div Len(p)

ReturnVals == {-300, 100}

ReturnSeqs ==
    {[k \in 1..NumReturns |-> r] : r \in ReturnVals}
        \cup {[k \in 1..NumReturns |-> IF k % 2 = 1 THEN 100 ELSE -300]}

InitialParticles(n) ==
    {[k \in 1..n |-> 0], [k \in 1..n |-> IF k % 2 = 1 THEN 100 ELSE -100]}

\* t.rvs(df=5, size=n) * 0.01: every particle typical, or one far in a tail
NoiseVectors(n) ==
    {[k \in 1..n |-> IF k = hit THEN big ELSE TypicalNoise] :
        hit \in {0, 1, n}, big \in {-TailNoise, TailNoise}}

Offsets(n) == {0, (WeightDen \div n) - 1}

NoPFInput == [impl |-> "none", n |-> 0, returns |-> <<>>]

NoStep ==
    [phase |-> "idle", resampled |-> FALSE, ess_low |-> FALSE, moved |-> <<>>,
     updated |-> <<>>, indices |-> <<>>, u |-> 0]

PFIdle ==
    /\ pfin = NoPFInput /\ particles = <<>> /\ weights = <<>>
    /\ volatilities = <<>> /\ rpos = 0 /\ last = NoStep

InitPF ==
    /\ \E impl \in {"engine", "services"}, returns \in ReturnSeqs :
          pfin = [impl |-> impl, n |-> NumParticles, returns |-> returns]
    /\ particles \in InitialParticles(NumParticles)
    /\ weights = UniformWeights(NumParticles)
    /\ volatilities = <<>>
    /\ rpos = 0
    /\ last = [NoStep EXCEPT !.phase = "start"]

\* one iteration of "for r in returns"; services.py resamples in every one
PFStep ==
    /\ last.phase \in {"start", "iter"}
    /\ rpos < Len(pfin.returns)
    /\ \E noise \in NoiseVectors(pfin.n), u \in Offsets(pfin.n) :
        LET r       == pfin.returns[rpos + 1]
            moved   == [k \in 1..pfin.n |-> QuoT(9 * particles[k], 10) + noise[k]]
            updated == UpdateWeights(weights,
                          [k \in 1..pfin.n |-> TPdf(r, ScaleOf(moved[k]))])
            low     == EssLow(updated, pfin.n)
            resample == pfin.impl = "services" \/ low
            indices == systematic_resampling(updated, u)
            kept    == IF resample THEN Select(moved, indices) ELSE moved
        IN  /\ particles' = kept
            /\ weights' = IF resample
                          THEN weights_after_resampling(updated, pfin.n)
                          ELSE updated
            /\ volatilities' = Append(volatilities, MeanVol(kept))
            /\ rpos' = rpos + 1
            /\ last' = [phase |-> "iter", resampled |-> resample,
                        ess_low |-> low, moved |-> moved, updated |-> updated,
                        indices |-> IF resample THEN indices ELSE <<>>,
                        u |-> IF resample THEN u ELSE 0]
    /\ UNCHANGED <<pfin, sigVars, engVars, anVars, hVars, lookVars, rsVars, patVars, fpnVars, chaosVars, cfgVars, mdVars, rtVars, trendVars, regimeVars, prepVars, queueVars, gateVars>>

\* return np.array(volatilities)
PFReturn ==
    /\ last.phase \in {"start", "iter"}
    /\ rpos = Len(pfin.returns)
    /\ last' = [last EXCEPT !.phase = "returned"]
    /\ UNCHANGED <<pfin, particles, weights, volatilities, rpos,
                   sigVars, engVars, anVars, hVars, lookVars, rsVars, patVars, fpnVars, chaosVars, cfgVars, mdVars, rtVars, trendVars, regimeVars, prepVars, queueVars, gateVars>>

NextPF == PFStep \/ PFReturn

(***************************************************************************)
(* Two calls of _systematic_resampling, one after the other.  The weight   *)
(* vectors are the ways of giving quarters of the total weight to the      *)
(* particles, and two vectors a weight update leaves behind, whose sum is  *)
(* a little under one.                                                     *)
(***************************************************************************)
RECURSIVE Compositions(_, _)
Compositions(total, n) ==
    IF n = 0 THEN (IF total = 0 THEN {<<>>} ELSE {})
    ELSE UNION {{<<first>> \o t : t \in Compositions(total - first, n - 1)} :
                    first \in 0..total}

WeightVectors(n) ==
    {[k \in 1..n |-> c[k] * (WeightDen \div 4)] : c \in Compositions(4, n)}
        \cup {[k \in 1..n |-> IF k = 1 THEN 6912 ELSE (WeightDen - 6914) \div (n - 1)],
              [k \in 1..n |-> 0]}

NoRun == [done |-> FALSE, w |-> <<>>, u |-> 0, indices |-> <<>>]

Run(w, u) == [done |-> TRUE, w |-> w, u |-> u, indices |-> systematic_resampling(w, u)]

RSIdle == rs = [first |-> NoRun, second |-> NoRun, on |-> FALSE]

InitRS == rs = [first |-> NoRun, second |-> NoRun, on |-> TRUE]

ResampleFirst ==
    /\ rs.on /\ ~rs.first.done
    /\ \E w \in WeightVectors(NumParticles), u \in Offsets(NumParticles) :
          rs' = [rs EXCEPT !.first = Run(w, u)]
    /\ UNCHANGED <<sigVars, engVars, anVars, hVars, lookVars, pfVars, patVars, fpnVars, chaosVars, cfgVars, mdVars, rtVars, trendVars, regimeVars, prepVars, queueVars, gateVars>>

ResampleAgain ==
    /\ rs.on /\ rs.first.done /\ ~rs.second.done
    /\ \E w \in WeightVectors(NumParticles), u \in Offsets(NumParticles) :
          rs' = [rs EXCEPT !.second = Run(w, u)]
    /\ UNCHANGED <<sigVars, engVars, anVars, hVars, lookVars, pfVars, patVars, fpnVars, chaosVars, cfgVars, mdVars, rtVars, trendVars, regimeVars, prepVars, queueVars, gateVars>>

NextRS == ResampleFirst \/ ResampleAgain

(***************************************************************************)
(* Pattern detector, _detect_advanced_candlestick_patterns.  Prices are    *)
(* whole numbers; a bar is <<open, high, low, close>>.                     *)
(***************************************************************************)
Abs(x) == IF x < 0 THEN -x ELSE x

\* s[-k] of Python
FromEnd(s, k) == s[Len(s) - k + 1]

\* s[-3:]
LastThree(s) == PySlice(s, -3, Len(s))

PatternResult(status, pattern, confidence) ==
    [status |-> status, pattern |-> pattern, confidence |-> confidence]

is_three_white_soldiers(closes, highs) ==
    IF Len(closes) < 3 THEN "no"
    ELSE IF ~(closes[1] < closes[2] /\ closes[2] < closes[3]) THEN "no"
    ELSE IF Len(highs) < 3 THEN "IndexError"
    ELSE IF highs[1] < highs[2] /\ highs[2] < highs[3] THEN "yes" ELSE "no"

is_three_black_crows(closes, lows) ==
    IF Len(closes) < 3 THEN "no"
    ELSE IF ~(closes[1] > closes[2] /\ closes[2] > closes[3]) THEN "no"
    ELSE IF Len(lows) < 3 THEN "IndexError"
    ELSE IF lows[1] > lows[2] /\ lows[2] > lows[3] THEN "yes" ELSE "no"

\* abs(c - o) < 0.1 * (max(o, c) - min(o, c)), both sides times ten
StarDoji(closes, opens) ==
    10 * Abs(closes[2] - opens[2]) < Max(opens[2], closes[2]) - Min(opens[2], closes[2])

is_morning_star(closes, opens) ==
    IF Len(closes) < 3 THEN "no"
    ELSE IF closes[1] < opens[1] /\ StarDoji(closes, opens) /\ closes[3] > opens[3]
    THEN "yes" ELSE "no"

is_evening_star(closes, opens) ==
    IF Len(closes) < 3 THEN "no"
    ELSE IF closes[1] > opens[1] /\ StarDoji(closes, opens) /\ closes[3] < opens[3]
    THEN "yes" ELSE "no"

\* the body from line 347 on; o names a close and c an open, as in the code
detect_after_guard(opens, highs, lows, closes) ==
    IF Len(closes) < 3 \/ Len(opens) < 3 \/ Len(highs) < 2 \/ Len(lows) < 2
    THEN PatternResult("IndexError", "NONE", 0)
    ELSE
    LET o  == FromEnd(closes, 1)
        c  == FromEnd(opens, 1)
        o1 == FromEnd(closes, 2)
        c1 == FromEnd(opens, 2)
        o2 == FromEnd(closes, 3)
        c2 == FromEnd(opens, 3)
        patterns ==
            << <<"THREE_WHITE_SOLDIERS",
                 is_three_white_soldiers(LastThree(closes), LastThree(highs))>>,
               <<"THREE_BLACK_CROWS",
                 is_three_black_crows(LastThree(closes), LastThree(lows))>>,
               <<"MORNING_STAR", is_morning_star(<<c2, c1, c>>, <<o2, o1, o>>)>>,
               <<"EVENING_STAR", is_evening_star(<<c2, c1, c>>, <<o2, o1, o>>)>> >>
        raised == {k \in 1..4 : patterns[k][2] = "IndexError"}
        hits   == {k \in 1..4 : patterns[k][2] = "yes"}
        first  == CHOOSE k \in hits : \A j \in hits : k <= j
    IN  IF raised # {} THEN PatternResult("IndexError", "NONE", 0)
        ELSE IF hits # {} THEN PatternResult("ok", patterns[first][1], 80)
        ELSE PatternResult("ok", "NONE", 0)

\* the detector without its length guard
detect_unguarded(opens, highs, lows, closes) ==
    detect_after_guard(opens, highs, lows, closes)

detect_advanced_candlestick_patterns(opens, highs, lows, closes) ==
    IF Len(closes) < 3 THEN PatternResult("ok", "NONE", 0)
    ELSE detect_after_guard(opens, highs, lows, closes)

MaxBars == 3

\* bar shapes at price level v: falling, rising, open = close with shadows,
\* a body of 1 in a range of 41, open = close without shadows
BarShapes(v) ==
    {<<v + 5, v + 6, v - 1, v>>, <<v, v + 6, v - 1, v + 5>>,
     <<v, v + 20, v - 20, v>>, <<v, v + 21, v - 20, v + 1>>, <<v, v, v, v>>}

Levels == {100, 110, 120}

Bars == UNION {BarShapes(v) : v \in Levels}

Column(bars, f) == [k \in 1..Len(bars) |-> bars[k][f]]

\* the four arrays of a bar list; "closes_short" and "closes_long" give the
\* closes one bar fewer, or one bar more, than the other three arrays
PatternInput(bars, shape) ==
    LET cut == IF bars = <<>> THEN <<>> ELSE Tail(bars)
    IN  [opens  |-> Column(IF shape = "closes_long" THEN cut ELSE bars, 1),
         highs  |-> Column(IF shape = "closes_long" THEN cut ELSE bars, 2),
         lows   |-> Column(IF shape = "closes_long" THEN cut ELSE bars, 3),
         closes |-> Column(IF shape = "closes_short" THEN cut ELSE bars, 4),
         bars   |-> IF shape = "even" THEN bars ELSE <<>>]

NoPatternInput ==
    [opens |-> <<>>, highs |-> <<>>, lows |-> <<>>, closes |-> <<>>, bars |-> <<>>]

NoPattern == PatternResult("idle", "NONE", 0)

PatIdle == pin = NoPatternInput /\ pres = PatternResult("off", "NONE", 0)

InitPat ==
    /\ \E n \in 0..MaxBars, shape \in {"even", "closes_short", "closes_long"} :
          \E bars \in [1..n -> Bars] : pin = PatternInput(bars, shape)
    /\ pres = NoPattern

DetectPatterns ==
    /\ pres.status = "idle"
    /\ pres' = detect_advanced_candlestick_patterns(pin.opens, pin.highs,
                                                    pin.lows, pin.closes)
    /\ UNCHANGED <<pin, sigVars, engVars, anVars, hVars, lookVars, pfVars, rsVars, fpnVars, chaosVars, cfgVars, mdVars, rtVars, trendVars, regimeVars, prepVars, queueVars, gateVars>>

NextPat == DetectPatterns

(***************************************************************************)
(* Directional predictor: _fpn_drl_predict_enhanced of the engine and      *)
(* _fpn_drl_predict of services.py.  Hurst values and thresholds are in    *)
(* thousandths, volatilities in thousandths, confidences and probabilities *)
(* in hundredths.  The feature vector built at lines 311-321 is not used   *)
(* by the rule.                                                            *)
(***************************************************************************)
LowVol == 50

Prediction(signal, confidence, probs) ==
    [status |-> "done", signal |-> signal, confidence |-> confidence,
     action_probs |-> probs]

\* the rule with the nan of the last values not replaced
fpn_drl_predict_no_defaults(in) ==
    IF in.n = 0 THEN Prediction("HOLD", 50, <<33, 33, 34>>)
    ELSE IF FGt(in.hurst, in.hurst_threshold) /\ FLt(in.vol, LowVol)
         THEN Prediction("BUY", 70, <<70, 15, 15>>)
         ELSE IF FLt(in.hurst, 1000 - in.hurst_threshold) \/ FGt(in.vol, HighVol)
         THEN Prediction("SELL", 60, <<15, 70, 15>>)
         ELSE Prediction("HOLD", 50, <<20, 20, 60>>)

fpn_drl_predict_enhanced(in) ==
    IF in.n = 0 THEN Prediction("HOLD", 50, <<33, 33, 34>>)
    ELSE LET current_hurst == IF ~isnan(in.hurst) THEN in.hurst ELSE DefaultHurst
             current_vol   == IF ~isnan(in.vol) THEN in.vol ELSE DefaultVol
         IN  IF FGt(current_hurst, in.hurst_threshold) /\ FLt(current_vol, LowVol)
             THEN Prediction("BUY", 70, <<70, 15, 15>>)
             ELSE IF FLt(current_hurst, 1000 - in.hurst_threshold)
                     \/ FGt(current_vol, HighVol)
             THEN Prediction("SELL", 60, <<15, 70, 15>>)
             ELSE Prediction("HOLD", 50, <<20, 20, 60>>)

\* services.py returns the pair (signal, confidence): no probabilities
fpn_drl_predict(in) ==
    IF in.n = 0 THEN Prediction("HOLD", 50, <<>>)
    ELSE LET current_hurst == IF ~isnan(in.hurst) THEN in.hurst ELSE DefaultHurst
             current_vol   == IF ~isnan(in.vol) THEN in.vol ELSE DefaultVol
         IN  IF FGt(current_hurst, in.hurst_threshold) /\ FLt(current_vol, LowVol)
             THEN Prediction("BUY", 70, <<>>)
             ELSE IF FLt(current_hurst, 1000 - in.hurst_threshold)
                     \/ FGt(current_vol, HighVol)
             THEN Prediction("SELL", 60, <<>>)
             ELSE Prediction("HOLD", 50, <<>>)

NoPrediction == [status |-> "idle", signal |-> "NONE", confidence |-> 0,
                 action_probs |-> <<>>]

NoPredictInput == [n |-> 0, hurst |-> NaN, vol |-> NaN, hurst_threshold |-> 0]

PredictHurstVals == {NaN, 199, 200, 201, 349, 350, 351, 499, 500, 501,
                     649, 650, 651, 799, 800, 801}

PredictVolVals == {NaN, 20, 49, 50, 51, 79, 80, 81}

PredictThresholds == {MinHurstThreshold, 650, MaxHurstThreshold}

PredictInputs ==
    {[n |-> 0, hurst |-> NaN, vol |-> NaN, hurst_threshold |-> t] :
        t \in PredictThresholds}
    \cup {[n |-> 1, hurst |-> h, vol |-> v, hurst_threshold |-> t] :
            h \in PredictHurstVals, v \in PredictVolVals, t \in PredictThresholds}

FpnIdle == fin = NoPredictInput /\ fres = NoPrediction /\ fsres = NoPrediction

InitFpn == fin \in PredictInputs /\ fres = NoPrediction /\ fsres = NoPrediction

PredictEnhanced ==
    /\ fin \in PredictInputs
    /\ fres.status = "idle"
    /\ fres' = fpn_drl_predict_enhanced(fin)
    /\ UNCHANGED <<fin, fsres, sigVars, engVars, anVars, hVars, lookVars, pfVars,
                   rsVars, patVars, chaosVars, cfgVars, mdVars, rtVars, trendVars, regimeVars, prepVars, queueVars, gateVars>>

PredictServices ==
    /\ fin \in PredictInputs
    /\ fsres.status = "idle"
    /\ fsres' = fpn_drl_predict(fin)
    /\ UNCHANGED <<fin, fres, sigVars, engVars, anVars, hVars, lookVars, pfVars,
                   rsVars, patVars, chaosVars, cfgVars, mdVars, rtVars, trendVars, regimeVars, prepVars, queueVars, gateVars>>

NextFpn == PredictEnhanced \/ PredictServices

(***************************************************************************)
(* Chaos modulator, _quantum_chaos_optimization.  The logistic-map state x *)
(* and the thresholds are in 1/Scale; hurst values and hurst_threshold are *)
(* in thousandths.  With x = 0.5 and r = 4.0 the products of the map are   *)
(* exact in float64 as they are here.                                      *)
(***************************************************************************)
Pi == 31416
ChaosSeed == 5000
ChaosR == 4
FallbackVol == 200

\* np.sin(z) for |z| <= pi/2, by its Taylor series
SinFP(z) ==
    LET z2 == (z * z) \div Scale
        z3 == QuoT(z * z2, Scale)
        z5 == QuoT(z3 * z2, Scale)
        z7 == QuoT(z5 * z2, Scale)
    IN  z - QuoT(z3, 6) + QuoT(z5, 120) - QuoT(z7, 5040)

\* x = r * x * (1 - x)
LogisticMap(x) == (ChaosR * x * (Scale - x)) \div Scale

\* lines 290 and 296: the entropy of the std of all returns
ChaosEntropy(returns) ==
    EntropyOf(IF Len(returns) > 0 THEN Std(returns) ELSE FallbackVol)

\* the loop from index i on: <<threshold, x>> per index
RECURSIVE ChaosFrom(_, _, _, _, _)
ChaosFrom(i, x, hurst_in, hurst_threshold, entropy) ==
    IF i >= Len(hurst_in) THEN <<>>
    ELSE IF isnan(At(hurst_in, i))
         THEN << <<10 * hurst_threshold, x>> >>
                  \o ChaosFrom(i + 1, x, hurst_in, hurst_threshold, entropy)
         ELSE LET x2 == LogisticMap(x)
                  th == 10 * hurst_threshold
                          + QuoT(x2 * SinFP(QuoT(Pi * entropy, Scale)), 100 * Scale)
              IN  << <<th, x2>> >>
                    \o ChaosFrom(i + 1, x2, hurst_in, hurst_threshold, entropy)

quantum_chaos_optimization(hurst_in, returns, hurst_threshold) ==
    LET steps == ChaosFrom(0, ChaosSeed, hurst_in, hurst_threshold, ChaosEntropy(returns))
    IN  [status |-> "done",
         thresholds |-> [k \in 1..Len(steps) |-> steps[k][1]],
         xs |-> [k \in 1..Len(steps) |-> steps[k][2]],
         chaos_state |-> IF steps = <<>> THEN ChaosSeed ELSE steps[Len(steps)][2]]

MaxChaosLen == 4

ChaosHurstVals == {NaN, 300, 652, 700}

ChaosReturns == {<<>>, <<0, 0, 0>>, <<0, 200, -200>>, <<0, 3000, -3000>>}

NoChaosInput == [hurst |-> <<>>, returns |-> <<>>, hurst_threshold |-> 0]

NoChaos == [status |-> "idle", thresholds |-> <<>>, xs |-> <<>>, chaos_state |-> 0]

ChaosIdle == cin = NoChaosInput /\ cres = [NoChaos EXCEPT !.status = "off"]

InitChaos ==
    /\ \E n \in 0..MaxChaosLen, returns \in ChaosReturns, t \in PredictThresholds :
          \E h \in [1..n -> ChaosHurstVals] :
              cin = [hurst |-> h, returns |-> returns, hurst_threshold |-> t]
    /\ cres = NoChaos

ChaosOptimize ==
    /\ cres.status = "idle"
    /\ cres' = quantum_chaos_optimization(cin.hurst, cin.returns, cin.hurst_threshold)
    /\ UNCHANGED <<cin, sigVars, engVars, anVars, hVars, lookVars, pfVars, rsVars,
                   patVars, fpnVars, cfgVars, mdVars, rtVars, trendVars, regimeVars, prepVars, queueVars, gateVars>>

NextChaos == ChaosOptimize

(***************************************************************************)
(* The QuantumEngineConfig table and the code that writes is_active: the   *)
(* configuration form, the update-config and activate-config endpoints and *)
(* the pipeline's default configuration.  Each database call is one step;  *)
(* requests of different workers interleave between calls.  The model      *)
(* class itself is not part of the sources, so the default of is_active is *)
(* left open: it is chosen once and never changes.                         *)
(***************************************************************************)
MaxConfigs == 3
NumRequests == 2

ConfigIds == 1..MaxConfigs
Requests == 1..NumRequests

NoRow == [exists |-> FALSE, is_active |-> FALSE]

NoRequest == [pc |-> "idle", id |-> 0, is_active |-> FALSE, last |-> "none"]

\* the request has been answered
Answered(what) == [pc |-> "idle", id |-> 0, is_active |-> FALSE, last |-> what]

\* the request is between two database calls
Pending(at, id, active) == [pc |-> at, id |-> id, is_active |-> active, last |-> "none"]

ActiveConfigs == {c \in ConfigIds : configs[c].exists /\ configs[c].is_active}

HasFreeId == \E c \in ConfigIds : ~configs[c].exists

FreeId == CHOOSE c \in ConfigIds : ~configs[c].exists /\ \A d \in ConfigIds : d < c => configs[d].exists

\* Model.save() of an instance: insert when it has no pk, else write the row
SaveRow(id, active) ==
    IF id = 0 THEN [configs EXCEPT ![FreeId] = [exists |-> TRUE, is_active |-> active]]
    ELSE [configs EXCEPT ![id] = [exists |-> TRUE, is_active |-> active]]

CfgOthers == <<sigVars, engVars, anVars, hVars, lookVars, pfVars, rsVars, patVars, fpnVars, chaosVars,
              mdVars, rtVars, trendVars, regimeVars, prepVars, queueVars, gateVars>>

CfgIdle == configs = [c \in ConfigIds |-> NoRow] /\ req = [p \in Requests |-> NoRequest] /\ default_active = FALSE

InitCfg ==
    /\ configs = [c \in ConfigIds |-> NoRow]
    /\ req = [p \in Requests |-> NoRequest]
    /\ default_active \in BOOLEAN

\* QuantumEngineConfigForm.clean: id = 0 is a form for a new configuration
FormClean(p, id, active) ==
    /\ req[p].pc = "idle"
    /\ IF id = 0 THEN TRUE ELSE configs[id].exists
    /\ IF active /\ (ActiveConfigs \ {id}) # {}
       THEN req' = [req EXCEPT ![p] = Answered("form_invalid")]
       ELSE req' = [req EXCEPT ![p] = Pending("form_valid", id, active)]
    /\ UNCHANGED <<configs, default_active>>
    /\ UNCHANGED CfgOthers

\* QuantumEngineConfigForm.save
FormSave(p) ==
    /\ req[p].pc = "form_valid"
    /\ IF req[p].id = 0 THEN HasFreeId ELSE TRUE
    /\ configs' = SaveRow(req[p].id, req[p].is_active)
    /\ req' = [req EXCEPT ![p] = Answered("form_saved")]
    /\ UNCHANGED default_active
    /\ UNCHANGED CfgOthers

\* UpdateEngineConfigAPIView.post with an id: get, then setattr per field.
\* sent = "absent" when the body has no is_active field
UpdateGet(p, id, sent) ==
    /\ req[p].pc = "idle"
    /\ IF configs[id].exists
       THEN req' = [req EXCEPT ![p] = Pending("update_save", id,
                       IF sent = "absent" THEN configs[id].is_active ELSE sent = "true")]
       ELSE req' = [req EXCEPT ![p] = Answered("update_error")]
    /\ UNCHANGED <<configs, default_active>>
    /\ UNCHANGED CfgOthers

\* ... then config.save()
UpdateSave(p) ==
    /\ req[p].pc = "update_save"
    /\ configs' = SaveRow(req[p].id, req[p].is_active)
    /\ req' = [req EXCEPT ![p] = Answered("updated")]
    /\ UNCHANGED default_active
    /\ UNCHANGED CfgOthers

\* UpdateEngineConfigAPIView.post without an id: objects.create(**data)
UpdateCreate(p, sent) ==
    /\ req[p].pc = "idle"
    /\ HasFreeId
    /\ configs' = SaveRow(0, IF sent = "absent" THEN default_active ELSE sent = "true")
    /\ req' = [req EXCEPT ![p] = Answered("created")]
    /\ UNCHANGED default_active
    /\ UNCHANGED CfgOthers

\* ActivateEngineConfigAPIView.post: objects.update(is_active=False)
ActivateDeactivateAll(p, id) ==
    /\ req[p].pc = "idle"
    /\ configs' = [c \in ConfigIds |-> [configs[c] EXCEPT !.is_active = FALSE]]
    /\ req' = [req EXCEPT ![p] = Pending("activate_get", id, FALSE)]
    /\ UNCHANGED default_active
    /\ UNCHANGED CfgOthers

\* ... objects.get(id=config_id); config.is_active = True
ActivateGet(p) ==
    /\ req[p].pc = "activate_get"
    /\ IF configs[req[p].id].exists
       THEN req' = [req EXCEPT ![p] = Pending("activate_save", req[p].id, TRUE)]
       ELSE req' = [req EXCEPT ![p] = Answered("not_found")]
    /\ UNCHANGED <<configs, default_active>>
    /\ UNCHANGED CfgOthers

\* ... config.save()
ActivateSave(p) ==
    /\ req[p].pc = "activate_save"
    /\ configs' = SaveRow(req[p].id, TRUE)
    /\ req' = [req EXCEPT ![p] = Answered("activated")]
    /\ UNCHANGED default_active
    /\ UNCHANGED CfgOthers

\* run_prediction_pipeline: objects.filter(is_active=True).first()
PipelineLookup(p) ==
    /\ req[p].pc = "idle"
    /\ IF ActiveConfigs # {}
       THEN req' = [req EXCEPT ![p] = Answered("pipeline_found")]
       ELSE req' = [req EXCEPT ![p] = Pending("pipeline_create", 0, default_active)]
    /\ UNCHANGED <<configs, default_active>>
    /\ UNCHANGED CfgOthers

\* ... objects.create(name="Default Quantum Engine", ...)
PipelineCreate(p) ==
    /\ req[p].pc = "pipeline_create"
    /\ HasFreeId
    /\ configs' = SaveRow(0, default_active)
    /\ req' = [req EXCEPT ![p] = Answered("pipeline_created")]
    /\ UNCHANGED default_active
    /\ UNCHANGED CfgOthers

SentVals == {"absent", "true", "false"}

NextCfg ==
    \E p \in Requests :
        \/ \E id \in {0} \cup ConfigIds, active \in BOOLEAN : FormClean(p, id, active)
        \/ FormSave(p)
        \/ \E id \in ConfigIds, sent \in SentVals : UpdateGet(p, id, sent)
        \/ UpdateSave(p)
        \/ \E sent \in SentVals : UpdateCreate(p, sent)
        \/ \E id \in ConfigIds : ActivateDeactivateAll(p, id)
        \/ ActivateGet(p)
        \/ ActivateSave(p)
        \/ PipelineLookup(p)
        \/ PipelineCreate(p)

(***************************************************************************)
(* Market data retrieval of the task (run_quantum_analysis) and of the     *)
(* orchestrator (run_prediction_pipeline).  A bar is named by its          *)
(* timestamp; the five price arrays and the timestamps are built from the  *)
(* same rows in the same order.                                            *)
(***************************************************************************)
RecentLimit == 100
MinimumData == 50
MaxRows == 102

SetMax(S) == CHOOSE x \in S : \A y \in S : y <= x

\* order_by('-timestamp')[:limit]
RECURSIVE OrderByDescending(_, _)
OrderByDescending(S, limit) ==
    IF S = {} \/ limit = 0 THEN <<>>
    ELSE <<SetMax(S)>> \o OrderByDescending(S \ {SetMax(S)}, limit - 1)

NoHandoff == [status |-> "idle", by |-> "none", timestamps |-> <<>>, prediction_timestamp |-> 0]

MdIdle == mdata = {} /\ handoff = [NoHandoff EXCEPT !.status = "off"]

\* rows every step-th time unit from base on
InitMd ==
    /\ \E n \in (MinimumData - 3)..MaxRows, step \in 1..2, base \in {0, 7} :
          mdata = {base + step * i : i \in 1..n}
    /\ handoff = NoHandoff

\* run_quantum_analysis, from the query to update_or_create
RunQuantumAnalysis ==
    /\ handoff.status = "idle"
    /\ LET recent_data == OrderByDescending(mdata, RecentLimit)
       IN  IF Len(recent_data) < MinimumData
           THEN handoff' = [NoHandoff EXCEPT !.status = "insufficient", !.by = "task"]
           ELSE handoff' = [status |-> "analyzed", by |-> "task",
                            timestamps |-> recent_data,
                            prediction_timestamp |-> recent_data[1]]
    /\ UNCHANGED <<mdata, sigVars, engVars, anVars, hVars, lookVars, pfVars, rsVars,
                   patVars, fpnVars, chaosVars, cfgVars, rtVars, trendVars, regimeVars, prepVars, queueVars, gateVars>>

\* run_prediction_pipeline with _prepare_data_arrays; nothing is stored
RunPredictionPipeline ==
    /\ handoff.status = "idle"
    /\ LET market_data == OrderByDescending(mdata, RecentLimit)
       IN  IF Len(market_data) < MinimumData
           THEN handoff' = [NoHandoff EXCEPT !.status = "insufficient", !.by = "orchestrator"]
           ELSE handoff' = [status |-> "analyzed", by |-> "orchestrator",
                            timestamps |-> market_data,
                            prediction_timestamp |-> 0]
    /\ UNCHANGED <<mdata, sigVars, engVars, anVars, hVars, lookVars, pfVars, rsVars,
                   patVars, fpnVars, chaosVars, cfgVars, rtVars, trendVars, regimeVars, prepVars, queueVars, gateVars>>

NextMd == RunQuantumAnalysis \/ RunPredictionPipeline

(***************************************************************************)
(* One decision of analyze (steps 4, 5 and 7: chaos modulator, predictor,  *)
(* aggregator), then the same decision with the last dynamic threshold     *)
(* reported fed back as the engine's fixed threshold.  The aggregator and  *)
(* the predictor compare hurst values in thousandths; a threshold d in     *)
(* 1/Scale and its truncation to thousandths order every such value alike. *)
(***************************************************************************)
RtOthers == <<sigVars, engVars, anVars, hVars, lookVars, pfVars, rsVars, patVars, fpnVars, chaosVars, cfgVars, mdVars, trendVars, regimeVars, prepVars, queueVars, gateVars>>

NoDecisionInput ==
    [hurst |-> <<>>, returns |-> <<>>, hurst_threshold |-> 0, hurst_up |-> NaN,
     hurst_down |-> NaN, particle_vol |-> <<>>, rsv_up |-> 0, rsv_down |-> 0]

NoDecision ==
    [pc |-> "idle", dynamic_threshold |-> NaN, fpn_signal |-> "NONE", final_signal |-> "NONE",
     fpn_again |-> "NONE", signal_again |-> "NONE"]

RtIdle == rtin = NoDecisionInput /\ rt = [NoDecision EXCEPT !.pc = "off"]

RegimeVals == {<<700, 300>>, <<300, 700>>}
ParticleVolVals == {<<90, 20>>, <<20, 90>>}

InitRt ==
    /\ \E n \in 1..(MaxChaosLen - 1), returns \in ChaosReturns, t \in PredictThresholds,
          hr \in RegimeVals, pv \in ParticleVolVals, r \in RsvVals :
          \E h \in [1..n -> ChaosHurstVals] :
              rtin = [hurst |-> h, returns |-> returns, hurst_threshold |-> t,
                      hurst_up |-> hr[1], hurst_down |-> hr[2], particle_vol |-> pv,
                      rsv_up |-> r[1], rsv_down |-> r[2]]
    /\ rt = NoDecision

\* the arguments of the predictor, with the engine's fixed threshold t
PredictorArgs(t) ==
    [n |-> Len(rtin.hurst), hurst |-> rtin.hurst[Len(rtin.hurst)],
     vol |-> rtin.particle_vol[Len(rtin.particle_vol)], hurst_threshold |-> t]

\* the arguments of the aggregator: dynamic_threshold[-1] = d, fixed threshold t
AggregatorArgs(d, t, fpn) ==
    [n |-> Len(rtin.hurst), hurst |-> rtin.hurst[Len(rtin.hurst)],
     hurst_up |-> rtin.hurst_up, hurst_down |-> rtin.hurst_down,
     particle_vol |-> rtin.particle_vol, fpn_signal |-> fpn, dynamic_threshold |-> d,
     hurst_threshold |-> t, rsv_up |-> rtin.rsv_up, rsv_down |-> rtin.rsv_down]

\* step 4, and _safe_get_last(dynamic_threshold) of the result
DecisionChaos ==
    /\ rt.pc = "idle"
    /\ LET c == quantum_chaos_optimization(rtin.hurst, rtin.returns, rtin.hurst_threshold)
       IN  rt' = [rt EXCEPT !.pc = "chaos",
                            !.dynamic_threshold = c.thresholds[Len(c.thresholds)] \div 10]
    /\ UNCHANGED rtin
    /\ UNCHANGED RtOthers

\* step 5
DecisionPredict ==
    /\ rt.pc = "chaos"
    /\ rt' = [rt EXCEPT !.pc = "predicted",
                        !.fpn_signal = fpn_drl_predict_enhanced(PredictorArgs(rtin.hurst_threshold)).signal]
    /\ UNCHANGED rtin
    /\ UNCHANGED RtOthers

\* step 7
DecisionSignal ==
    /\ rt.pc = "predicted"
    /\ rt' = [rt EXCEPT !.pc = "decided",
                        !.final_signal = generate_quantum_signal(
                            AggregatorArgs(rt.dynamic_threshold, rtin.hurst_threshold, rt.fpn_signal)).signal]
    /\ UNCHANGED rtin
    /\ UNCHANGED RtOthers

\* the reported threshold becomes the fixed threshold; steps 5 and 7 again
DecisionFedBack ==
    /\ rt.pc = "decided"
    /\ LET fixed == rt.dynamic_threshold
           fpn   == fpn_drl_predict_enhanced(PredictorArgs(fixed)).signal
       IN  rt' = [rt EXCEPT !.pc = "fed_back",
                            !.fpn_again = fpn,
                            !.signal_again = generate_quantum_signal(AggregatorArgs(fixed, fixed, fpn)).signal]
    /\ UNCHANGED rtin
    /\ UNCHANGED RtOthers

NextRt == DecisionChaos \/ DecisionPredict \/ DecisionSignal \/ DecisionFedBack

(***************************************************************************)
(* Trend splitter, _calculate_asymmetric_ma_dfa.  hurst is the array the   *)
(* estimator returned to it (values in thousandths); returns are in        *)
(* 1/Scale.                                                                *)
(***************************************************************************)
TrendWindow == 10
SplitLen == 13
FreeTail == 4

\* np.sum(recent_returns > 0); a comparison with nan is False
UptrendDays(recent_returns) ==
    Cardinality({k \in 1..Len(recent_returns) :
                    ~isnan(recent_returns[k]) /\ recent_returns[k] > 0})

\* a splitter that also counts 60% as an uptrend and 40% as a downtrend
asymmetric_inclusive(i, hurst_in, returns, base_window) ==
    IF i < base_window \/ isnan(At(hurst_in, i)) THEN <<NaN, NaN>>
    ELSE LET recent_returns == PySlice(returns, Max(0, i - TrendWindow), i)
             uptrend_days   == UptrendDays(recent_returns)
         IN  IF 10 * uptrend_days >= 6 * Len(recent_returns)
             THEN <<At(hurst_in, i), NaN>>
             ELSE IF 10 * uptrend_days <= 4 * Len(recent_returns)
             THEN <<NaN, At(hurst_in, i)>>
             ELSE <<NaN, NaN>>

\* a splitter that reports the hurst value on both sides when neutral
asymmetric_both_when_neutral(i, hurst_in, returns, base_window) ==
    IF i < base_window \/ isnan(At(hurst_in, i)) THEN <<NaN, NaN>>
    ELSE LET recent_returns == PySlice(returns, Max(0, i - TrendWindow), i)
             uptrend_days   == UptrendDays(recent_returns)
         IN  IF 10 * uptrend_days > 6 * Len(recent_returns)
             THEN <<At(hurst_in, i), NaN>>
             ELSE IF 10 * uptrend_days < 4 * Len(recent_returns)
             THEN <<NaN, At(hurst_in, i)>>
             ELSE <<At(hurst_in, i), At(hurst_in, i)>>

\* the loop body, lines 208-226: <<hurst_up[i], hurst_down[i]>>
asymmetric_at(i, hurst_in, returns, base_window) ==
    IF i < base_window \/ isnan(At(hurst_in, i)) THEN <<NaN, NaN>>
    ELSE LET recent_returns == PySlice(returns, Max(0, i - TrendWindow), i)
             uptrend_days   == UptrendDays(recent_returns)
         IN  IF 10 * uptrend_days > 6 * Len(recent_returns)
             THEN <<At(hurst_in, i), NaN>>
             ELSE IF 10 * uptrend_days < 4 * Len(recent_returns)
             THEN <<NaN, At(hurst_in, i)>>
             ELSE <<NaN, NaN>>

calculate_asymmetric_ma_dfa(hurst_in, returns, base_window) ==
    [status |-> "done",
     hurst_up   |-> [k \in 1..Len(hurst_in) |->
                        asymmetric_at(k - 1, hurst_in, returns, base_window)[1]],
     hurst_down |-> [k \in 1..Len(hurst_in) |->
                        asymmetric_at(k - 1, hurst_in, returns, base_window)[2]]]

\* returns with c positive ones in every ten, the others zero or negative
PeriodicReturns(n, c, shift, other) ==
    [k \in 1..n |-> IF (k + shift) % TrendWindow < c THEN 100 ELSE other]

\* negative returns up to index from, positive ones after it
RampReturns(n, from) == [k \in 1..n |-> IF k - 1 >= from THEN 100 ELSE -100]

TrendReturns(n) ==
    {PeriodicReturns(n, c, shift, other) :
        c \in 0..TrendWindow, shift \in {0, 3}, other \in {0, -100}}
    \cup {RampReturns(n, from) : from \in 0..n}

\* hurst arrays: one value up to the tail, any values in the tail
TrendHursts(n) ==
    {[k \in 1..n |-> IF k <= n - FreeTail THEN head ELSE tail[k - (n - FreeTail)]] :
        head \in {NaN, 700}, tail \in [1..FreeTail -> {NaN, 300, 700}]}

TrendBaseWindows == {MinWindow, 12}

NoTrendInput == [hurst |-> <<>>, returns |-> <<>>, base_window |-> 0]

NoTrend == [status |-> "idle", hurst_up |-> <<>>, hurst_down |-> <<>>]

TrendIdle == ain = NoTrendInput /\ ares = [NoTrend EXCEPT !.status = "off"]

InitTrend ==
    /\ \E h \in TrendHursts(SplitLen), r \in TrendReturns(SplitLen), b \in TrendBaseWindows :
          ain = [hurst |-> h, returns |-> r, base_window |-> b]
    /\ ares = NoTrend

AsymmetricMaDfa ==
    /\ ares.status = "idle"
    /\ ares' = calculate_asymmetric_ma_dfa(ain.hurst, ain.returns, ain.base_window)
    /\ UNCHANGED <<ain, sigVars, engVars, anVars, hVars, lookVars, pfVars, rsVars, patVars,
                   fpnVars, chaosVars, cfgVars, mdVars, rtVars, regimeVars, prepVars, queueVars, gateVars>>

NoRegime == [status |-> "idle", buy_side |-> FALSE, sell_side |-> FALSE]

RegimeIdle == regime = NoRegime

\* the arguments analyze passes to the aggregator at step 7, as far as the
\* regime conditions read them
RegimeArgs ==
    [n |-> Len(ain.hurst), hurst |-> ain.hurst[Len(ain.hurst)],
     hurst_up |-> ares.hurst_up[Len(ares.hurst_up)],
     hurst_down |-> ares.hurst_down[Len(ares.hurst_down)],
     particle_vol |-> <<DefaultVol>>, fpn_signal |-> "HOLD",
     dynamic_threshold |-> NaN, hurst_threshold |-> 650, rsv_up |-> 0, rsv_down |-> 0]

\* _generate_quantum_signal on the splitter's arrays: lines 375-376, 383, 392
AggregateRegime ==
    /\ ares.status = "done"
    /\ regime.status = "idle"
    /\ regime' = [status |-> "done",
                  buy_side |-> SignalComponents(RegimeArgs).regime_condition,
                  sell_side |-> SellConditions(RegimeArgs)[2]]
    /\ UNCHANGED <<trendVars, sigVars, engVars, anVars, hVars, lookVars, pfVars, rsVars,
                   patVars, fpnVars, chaosVars, cfgVars, mdVars, rtVars, prepVars, queueVars, gateVars>>

NextTrend == AsymmetricMaDfa \/ AggregateRegime

(***************************************************************************)
(* BasePredictionEngine.preprocess_data and _handle_missing_values.  An    *)
(* undefined price is NaN.                                                 *)
(***************************************************************************)
MaxFill == 4

PriceKeys == {"closes", "opens", "highs", "lows"}

\* pd.Series.ffill: a nan takes the value before it, once that is filled
RECURSIVE Ffill(_)
Ffill(s) ==
    IF Len(s) <= 1 THEN s
    ELSE LET front == Ffill(SubSeq(s, 1, Len(s) - 1))
         IN  Append(front, IF isnan(s[Len(s)]) THEN front[Len(front)] ELSE s[Len(s)])

\* pd.Series.bfill: a nan takes the value after it, once that is filled
RECURSIVE Bfill(_)
Bfill(s) ==
    IF Len(s) <= 1 THEN s
    ELSE LET back == Bfill(Tail(s))
         IN  <<IF isnan(Head(s)) THEN Head(back) ELSE Head(s)>> \o back

\* backward fill first, then forward fill
handle_missing_values_bfill_first(array) ==
    IF \E k \in 1..Len(array) : isnan(array[k]) THEN Ffill(Bfill(array)) ELSE array

handle_missing_values(array) ==
    IF \E k \in 1..Len(array) : isnan(array[k]) THEN Bfill(Ffill(array)) ELSE array

\* the four price arrays are filled, every other key is passed on as it is
preprocess_data(data) ==
    [key \in DOMAIN data |->
        IF key \in PriceKeys THEN handle_missing_values(data[key]) ELSE data[key]]

\* arrays with a different price at every index, some of them missing
GappedArrays(n) ==
    {[k \in 1..n |-> IF k \in missing THEN NaN ELSE 100 + k] : missing \in SUBSET (1..n)}

NoData == [closes |-> <<>>]

PrepIdle == raw = NoData /\ processed = NoData

InitPrep ==
    /\ \E n \in 0..MaxFill :
          \E a \in GappedArrays(n), b \in GappedArrays(n) :
              raw = [closes |-> a, opens |-> b, highs |-> b, lows |-> a, volumes |-> a]
    /\ processed = NoData

PreprocessData ==
    /\ processed = NoData
    /\ DOMAIN raw # DOMAIN NoData
    /\ processed' = preprocess_data(raw)
    /\ UNCHANGED <<raw, sigVars, engVars, anVars, hVars, lookVars, pfVars, rsVars, patVars,
                   fpnVars, chaosVars, cfgVars, mdVars, rtVars, trendVars, regimeVars, queueVars, gateVars>>

NextPrep == PreprocessData

(***************************************************************************)
(* process_prediction_queue for one queue entry created by                 *)
(* queue_quantum_analysis.  Each database call is one step; invocations    *)
(* for the same entry id interleave between calls.  queue_entry is the     *)
(* invocation's own copy of the row.                                       *)
(***************************************************************************)
NumInvocations == 3
MaxRetries == 1

Invocations == 1..NumInvocations

QueueOthers == <<sigVars, engVars, anVars, hVars, lookVars, pfVars, rsVars, patVars, fpnVars, chaosVars, cfgVars, mdVars, rtVars, trendVars, regimeVars, prepVars, gateVars>>

NoInvocation == [pc |-> "off", retries |-> 0]

QueueIdle == qentry = "NONE" /\ inv = [w \in Invocations |-> NoInvocation] /\ runs = 0

\* queue_quantum_analysis has created the entry; the task is delivered
InitQueue ==
    /\ qentry = "PENDING"
    /\ inv = [w \in Invocations |-> [pc |-> "delivered", retries |-> 0]]
    /\ runs = 0

\* objects.get(id=queue_entry_id) and the status test on the copy
QueueGet(w) ==
    /\ inv[w].pc = "delivered"
    /\ inv' = [inv EXCEPT ![w].pc = IF qentry # "PENDING" THEN "returned" ELSE "pending_seen"]
    /\ UNCHANGED <<qentry, runs>>
    /\ UNCHANGED QueueOthers

\* queue_entry.status = 'PROCESSING'; queue_entry.save()
QueueMarkProcessing(w) ==
    /\ inv[w].pc = "pending_seen"
    /\ qentry' = "PROCESSING"
    /\ inv' = [inv EXCEPT ![w].pc = "processing"]
    /\ UNCHANGED runs
    /\ UNCHANGED QueueOthers

\* run_quantum_analysis(...): it returns, or what it raises propagates
QueueRunAnalysis(w) ==
    /\ inv[w].pc = "processing"
    /\ runs' = runs + 1
    /\ \E raised \in BOOLEAN :
          inv' = [inv EXCEPT ![w].pc = IF raised THEN "raised" ELSE "analysed"]
    /\ UNCHANGED qentry
    /\ UNCHANGED QueueOthers

\* queue_entry.status = 'COMPLETED'; queue_entry.save()
QueueComplete(w) ==
    /\ inv[w].pc = "analysed"
    /\ qentry' = "COMPLETED"
    /\ inv' = [inv EXCEPT ![w].pc = "returned"]
    /\ UNCHANGED runs
    /\ UNCHANGED QueueOthers

\* the except clause: the row is read again, set to FAILED and saved, then
\* self.retry delivers the task again until the retries are used up
QueueFail(w) ==
    /\ inv[w].pc = "raised"
    /\ qentry' = "FAILED"
    /\ inv' = [inv EXCEPT ![w] = IF inv[w].retries < MaxRetries
                                 THEN [pc |-> "delivered", retries |-> inv[w].retries + 1]
                                 ELSE [pc |-> "returned", retries |-> inv[w].retries]]
    /\ UNCHANGED runs
    /\ UNCHANGED QueueOthers

NextQueue ==
    \E w \in Invocations :
        \/ QueueGet(w) \/ QueueMarkProcessing(w) \/ QueueRunAnalysis(w)
        \/ QueueComplete(w) \/ QueueFail(w)

\* end of model

(***************************************************************************)
(* Specifications: each one exercises one part of the engine and leaves    *)
(* the state of the other parts at rest.                                   *)
(***************************************************************************)
InitSignal ==
    /\ sigIn \in SignalInputs /\ qres = Idle /\ sres = Idle
    /\ EngIdle /\ AnIdle /\ HIdle /\ LookIdle /\ PFIdle /\ RSIdle /\ PatIdle /\ FpnIdle /\ ChaosIdle /\ CfgIdle /\ MdIdle /\ RtIdle /\ TrendIdle /\ RegimeIdle /\ PrepIdle /\ QueueIdle /\ GateIdle

SpecSignal == InitSignal /\ [][NextSignal]_vars

InitEngine == EngIdle /\ SigIdle /\ AnIdle /\ HIdle /\ LookIdle /\ PFIdle /\ RSIdle /\ PatIdle /\ FpnIdle /\ ChaosIdle /\ CfgIdle /\ MdIdle /\ RtIdle /\ TrendIdle /\ RegimeIdle /\ PrepIdle /\ QueueIdle /\ GateIdle

SpecEngine == InitEngine /\ [][NextEngine]_vars

InitAnalyze == AnIdle /\ SigIdle /\ EngIdle /\ HIdle /\ LookIdle /\ PFIdle /\ RSIdle /\ PatIdle /\ FpnIdle /\ ChaosIdle /\ CfgIdle /\ MdIdle /\ RtIdle /\ TrendIdle /\ RegimeIdle /\ PrepIdle /\ QueueIdle /\ GateIdle

SpecAnalyze == InitAnalyze /\ [][NextAnalyze]_vars

InitHurstSpec == InitHurst /\ SigIdle /\ EngIdle /\ AnIdle /\ LookIdle /\ PFIdle /\ RSIdle /\ PatIdle /\ FpnIdle /\ ChaosIdle /\ CfgIdle /\ MdIdle /\ RtIdle /\ TrendIdle /\ RegimeIdle /\ PrepIdle /\ QueueIdle /\ GateIdle

SpecHurst == InitHurstSpec /\ [][NextHurst]_vars

InitLookSpec == InitLook /\ SigIdle /\ EngIdle /\ AnIdle /\ HIdle /\ PFIdle /\ RSIdle /\ PatIdle /\ FpnIdle /\ ChaosIdle /\ CfgIdle /\ MdIdle /\ RtIdle /\ TrendIdle /\ RegimeIdle /\ PrepIdle /\ QueueIdle /\ GateIdle

SpecLook == InitLookSpec /\ [][NextLook]_vars

InitPFSpec == InitPF /\ SigIdle /\ EngIdle /\ AnIdle /\ HIdle /\ LookIdle /\ RSIdle /\ PatIdle /\ FpnIdle /\ ChaosIdle /\ CfgIdle /\ MdIdle /\ RtIdle /\ TrendIdle /\ RegimeIdle /\ PrepIdle /\ QueueIdle /\ GateIdle

SpecPF == InitPFSpec /\ [][NextPF]_vars

InitRSSpec == InitRS /\ SigIdle /\ EngIdle /\ AnIdle /\ HIdle /\ LookIdle /\ PFIdle /\ PatIdle /\ FpnIdle /\ ChaosIdle /\ CfgIdle /\ MdIdle /\ RtIdle /\ TrendIdle /\ RegimeIdle /\ PrepIdle /\ QueueIdle /\ GateIdle

SpecRS == InitRSSpec /\ [][NextRS]_vars

InitPatSpec == InitPat /\ SigIdle /\ EngIdle /\ AnIdle /\ HIdle /\ LookIdle /\ PFIdle /\ RSIdle /\ FpnIdle /\ ChaosIdle /\ CfgIdle /\ MdIdle /\ RtIdle /\ TrendIdle /\ RegimeIdle /\ PrepIdle /\ QueueIdle /\ GateIdle

SpecPat == InitPatSpec /\ [][NextPat]_vars

InitFpnSpec ==
    InitFpn /\ SigIdle /\ EngIdle /\ AnIdle /\ HIdle /\ LookIdle /\ PFIdle /\ RSIdle /\ PatIdle /\ ChaosIdle /\ CfgIdle /\ MdIdle /\ RtIdle /\ TrendIdle /\ RegimeIdle /\ PrepIdle /\ QueueIdle /\ GateIdle

SpecFpn == InitFpnSpec /\ [][NextFpn]_vars

InitChaosSpec ==
    InitChaos /\ SigIdle /\ EngIdle /\ AnIdle /\ HIdle /\ LookIdle /\ PFIdle /\ RSIdle /\ PatIdle /\ FpnIdle /\ CfgIdle /\ MdIdle /\ RtIdle /\ TrendIdle /\ RegimeIdle /\ PrepIdle /\ QueueIdle /\ GateIdle

SpecChaos == InitChaosSpec /\ [][NextChaos]_vars

InitCfgSpec ==
    InitCfg /\ SigIdle /\ EngIdle /\ AnIdle /\ HIdle /\ LookIdle /\ PFIdle /\ RSIdle /\ PatIdle /\ FpnIdle /\ ChaosIdle /\ MdIdle /\ RtIdle /\ TrendIdle /\ RegimeIdle /\ PrepIdle /\ QueueIdle /\ GateIdle

SpecCfg == InitCfgSpec /\ [][NextCfg]_vars

InitMdSpec ==
    InitMd /\ SigIdle /\ EngIdle /\ AnIdle /\ HIdle /\ LookIdle /\ PFIdle /\ RSIdle /\ PatIdle /\ FpnIdle /\ ChaosIdle /\ CfgIdle /\ RtIdle /\ TrendIdle /\ RegimeIdle /\ PrepIdle /\ QueueIdle /\ GateIdle

SpecMd == InitMdSpec /\ [][NextMd]_vars

InitRtSpec ==
    InitRt /\ SigIdle /\ EngIdle /\ AnIdle /\ HIdle /\ LookIdle /\ PFIdle /\ RSIdle /\ PatIdle /\ FpnIdle /\ ChaosIdle /\ CfgIdle /\ MdIdle /\ TrendIdle /\ RegimeIdle /\ PrepIdle /\ QueueIdle /\ GateIdle

SpecRt == InitRtSpec /\ [][NextRt]_vars

InitTrendSpec ==
    InitTrend /\ SigIdle /\ EngIdle /\ AnIdle /\ HIdle /\ LookIdle /\ PFIdle /\ RSIdle /\ PatIdle /\ FpnIdle /\ ChaosIdle /\ CfgIdle /\ MdIdle /\ RtIdle /\ RegimeIdle /\ PrepIdle /\ QueueIdle /\ GateIdle

SpecTrend == InitTrendSpec /\ [][NextTrend]_vars

InitPrepSpec ==
    InitPrep /\ SigIdle /\ EngIdle /\ AnIdle /\ HIdle /\ LookIdle /\ PFIdle /\ RSIdle /\ PatIdle /\ FpnIdle /\ ChaosIdle /\ CfgIdle /\ MdIdle /\ RtIdle /\ TrendIdle /\ RegimeIdle /\ QueueIdle /\ GateIdle

SpecPrep == InitPrepSpec /\ [][NextPrep]_vars

InitQueueSpec ==
    InitQueue /\ SigIdle /\ EngIdle /\ AnIdle /\ HIdle /\ LookIdle /\ PFIdle /\ RSIdle /\ PatIdle /\ FpnIdle /\ ChaosIdle /\ CfgIdle /\ MdIdle /\ RtIdle /\ TrendIdle /\ RegimeIdle /\ PrepIdle /\ GateIdle

SpecQueue == InitQueueSpec /\ [][NextQueue]_vars

\* end of specifications

(***************************************************************************)
(* Claims about the signal aggregator (checked under SpecSignal)           *)
(***************************************************************************)
BuyKeys == {"hurst_condition", "regime_condition", "volatility_condition",
            "fpn_condition", "semivariance_condition"}

SellKeys == {"sell_hurst_condition", "sell_regime_condition",
             "sell_fpn_condition", "sell_volatility_condition"}

\* C1: whatever the inputs (undefined ones included), the final signal is BUY
\* only if at least 3 of the buy-conditions are true, in both implementations.
C1_BuyNeedsThree ==
    /\ (qres.status = "done" /\ qres.signal = "BUY")
          => BoolSum(SignalComponents(sigIn)) >= 3
    /\ (sres.status = "done" /\ sres.signal = "BUY")
          => BoolSum(ServicesBuyConditions(sigIn)) >= 3

C1_Witness ==
    /\ qres.status = "done" /\ qres.signal = "BUY" /\ qres.buy_score = 3
    /\ isnan(sigIn.hurst_down)
    /\ sres.status = "done"

\* C2: the engine's aggregator answers BUY when buy_score >= 3, even if
\* sell_score >= 2 too, SELL when buy_score < 3 and sell_score >= 2, and HOLD
\* otherwise.
C2_BuyBeforeSell ==
    (qres.status = "done" /\ sigIn.n > 0) =>
        LET b == BoolSum(SignalComponents(sigIn))
            s == BoolSum(SellConditions(sigIn))
        IN  /\ b \in 0..5 /\ s \in 0..4
            /\ qres.buy_score = b /\ qres.sell_score = s
            /\ (b >= 3) => qres.signal = "BUY"
            /\ (b < 3 /\ s >= 2) => qres.signal = "SELL"
            /\ (b < 3 /\ s < 2) => qres.signal = "HOLD"

C2_Witness ==
    /\ qres.status = "done" /\ qres.signal = "BUY"
    /\ qres.buy_score >= 3 /\ qres.sell_score >= 2

\* C3 (as claimed): in every implementation of the aggregator the confidence
\* is min(0.95, 0.5 + 0.15*buy_score) for BUY, min(0.85, 0.4 + 0.2*sell_score)
\* for SELL and 0.5 for HOLD, hence within [0,1].
ClaimedConfidence(r) ==
    CASE r.signal = "BUY"  -> Min(95, 50 + 15 * r.buy_score)
      [] r.signal = "SELL" -> Min(85, 40 + 20 * r.sell_score)
      [] OTHER             -> 50

C3_ConfidenceEverywhere ==
    /\ qres.status = "done" =>
          qres.confidence = ClaimedConfidence(qres) /\ qres.confidence \in 0..100
    /\ sres.status = "done" =>
          sres.confidence = ClaimedConfidence(sres) /\ sres.confidence \in 0..100

\* C4 (as claimed): signal_components holds all nine condition booleans, the
\* five buy-conditions and the four sell-conditions.
C4_AllNineComponents ==
    (qres.status = "done" /\ sigIn.n > 0) =>
        /\ BuyKeys \subseteq DOMAIN qres.components
        /\ Cardinality(DOMAIN qres.components) = 9

\* C4 (amended): for a non-empty series signal_components holds exactly the
\* five buy-condition booleans, each as evaluated by the aggregator, whichever
\* final signal is returned; the four sell-conditions are not part of it.
C4_FiveBuyComponents ==
    (qres.status = "done" /\ sigIn.n > 0) =>
        /\ DOMAIN qres.components = BuyKeys
        /\ \A k \in BuyKeys : qres.components[k] \in BOOLEAN
        /\ qres.buy_score = Cardinality({k \in BuyKeys : qres.components[k]})

C4_Witness ==
    /\ qres.status = "done" /\ qres.signal = "SELL"
    /\ qres.components.semivariance_condition
    /\ DOMAIN qres.components = BuyKeys

\* C28: every BUY or SELL the aggregators produce carries a confidence
\* above 0.7, so the gate of run_quantum_analysis (BUY or SELL, and
\* confidence > 0.7) forwards every BUY and SELL and holds back only HOLD.
C28_GateForwardsBuyAndSell ==
    /\ (qres.status = "done" /\ qres.signal \in {"BUY", "SELL"}) => qres.confidence > 70
    /\ (sres.status = "done" /\ sres.signal \in {"BUY", "SELL"}) => sres.confidence > 70
    /\ gate.status = "done" => (gate.forwarded <=> qres.signal \in {"BUY", "SELL"})

\* C28 witness: a SELL with two sell conditions, confidence 0.8, has passed
\* the gate.
C28_Witness ==
    /\ gate.status = "done" /\ gate.forwarded
    /\ qres.signal = "SELL" /\ qres.sell_score = 2 /\ qres.confidence = 80

(***************************************************************************)
(* Claims about engine construction (checked under SpecEngine)             *)
(***************************************************************************)
InRange(c) ==
    /\ ~c.is_none
    /\ c.base_window_size \in 10..50
    /\ c.particle_count \in 50..500
    /\ c.hurst_threshold \in 500..800

\* C5 (as claimed): however the repository constructs an engine from a config,
\* the construction succeeds if and only if the three parameters are within
\* their ranges; an out-of-range value makes it fail (the claim says with a
\* ValidationError; a False return is accepted here as the failure) and never
\* yields a usable engine.
C5_InitIffInRange ==
    /\ lastCall.how # "none" =>
          (InRange(lastCall.config) <=> lastCall.outcome \in {"True", "constructed"})
    /\ svc.constructed => InRange(svc.config)

EngineInRange(e) ==
    /\ e.base_window >= 10 /\ e.base_window <= 50
    /\ e.n_particles >= 50 /\ e.n_particles <= 500
    /\ e.hurst_threshold >= 500 /\ e.hurst_threshold <= 800

\* C25: after any sequence of initialize() calls on one engine instance,
\* is_initialized = true implies that base_window, n_particles and
\* hurst_threshold are within their ranges, and a call that returned false
\* leaves the three parameters as they were before it.
C25_InitializedMeansInRange ==
    [][/\ eng'.is_initialized => EngineInRange(eng')
       /\ (lastCall'.how = "initialize" /\ lastCall'.outcome = "False") =>
             /\ eng'.base_window = eng.base_window
             /\ eng'.n_particles = eng.n_particles
             /\ eng'.hurst_threshold = eng.hurst_threshold]_vars

(***************************************************************************)
(* Claims about analyze() (checked under SpecAnalyze)                      *)
(***************************************************************************)
ValidSeries(c) == c.keys = Fields /\ c.n >= 50

\* C6 (as claimed): a call whose input lacks one of open, high, low, close,
\* volume, or has fewer than 50 points, fails validation before any estimator
\* step runs: no estimator ever runs on an invalid series.
C6_NoEstimatorOnInvalidSeries ==
    /\ ran # {} => ValidSeries(call)
    /\ (pc = "done" /\ ~ValidSeries(call)) => (ran = {} /\ outcome # "none")

(***************************************************************************)
(* The adaptive Hurst estimator, one call (SpecHurst)                      *)
(***************************************************************************)
Written == {k \in 1..Len(trace) : trace[k].done}

BelowWindow(k) == k - 1 = 0 \/ k - 1 < trace[k].window

C8_SequentialFold ==
    \A k \in Written : trace[k].prev_written

(***************************************************************************)
(* Lookahead of the estimator (SpecLook)                                   *)
(***************************************************************************)
\* C9: no lookahead - two series that agree on every bar up to index i give
\* the same entry at index i (rolling volatility, entropy, adaptive window,
\* Hurst exponent, fluctuation), whatever the later bars are.
C9_NoLookahead ==
    (/\ look.status \in {"running", "returned"}
     /\ look.i >= 1
     /\ look.i - 1 < look.prefix)
        => look.ea = look.eb

\* C24: for every index i < 20 the rolling volatility and the entropy are
\* undefined, and at every index whose entropy is undefined the adaptive
\* window the estimator uses equals base_window_size.
C24_UndefinedBeforeTwenty ==
    \A k \in Written :
        /\ k - 1 < VolWindow => (hin.volatility[k] = NaN /\ hin.entropy[k] = NaN)
        /\ (k > 1 /\ hin.entropy[k] = NaN) => trace[k].window = hin.base_window

(***************************************************************************)
(* Particle filter (SpecPF)                                                *)
(***************************************************************************)
\* C10: right after every resampling step each of the particle_count
\* weights is exactly 1/particle_count, so the effective sample size
\* 1/sum(weight^2) is particle_count.
C10_UniformAfterResampling ==
    (last.phase = "iter" /\ last.resampled) =>
        /\ Len(weights) = pfin.n
        /\ \A k \in 1..pfin.n : weights[k] * pfin.n = WeightDen
        /\ pfin.n * SumSq(weights) = WeightDen * WeightDen

\* C10 witness: the engine's filter has just resampled because the
\* effective sample size of unequal updated weights fell below half the
\* particle count.
C10_Witness ==
    /\ pfin.impl = "engine"
    /\ last.phase = "iter" /\ last.resampled /\ last.ess_low
    /\ \E k \in 1..pfin.n : last.updated[k] * pfin.n # WeightDen

\* C21: in each filter step the particles are resampled and the weights
\* reset to uniform if and only if the effective sample size of the updated
\* weights is below particle_count/2; otherwise the propagated particles
\* and the updated weights are carried into the next step unchanged.
C21_ResampleIffEssLow ==
    last.phase = "iter" =>
        /\ last.resampled <=> last.ess_low
        /\ ~last.ess_low => (particles = last.moved /\ weights = last.updated)

TimesSelected(indices, k) == Cardinality({j \in 1..Len(indices) : indices[j] = k})

CeilDiv(a, b) == (a + b - 1) \div b

\* C29: for non-negative weights summing to 1 and an offset in [0, 1/N), the
\* resampling returns exactly N indices, each in 0..N-1, in non-decreasing
\* order, and selects each particle k either floor(N*w_k) or ceil(N*w_k) times.
C29_SystematicCounts ==
    (rs.first.done /\ SeqSum(rs.first.w) = WeightDen) =>
        LET w == rs.first.w
            n == Len(w)
            indices == rs.first.indices
        IN  /\ Len(indices) = n
            /\ \A j \in 1..Len(indices) : indices[j] \in 0..(n - 1)
            /\ \A j \in 1..(Len(indices) - 1) : indices[j] <= indices[j + 1]
            /\ \A k \in 0..(n - 1) :
                   TimesSelected(indices, k) \in
                       {(n * At(w, k)) \div WeightDen, CeilDiv(n * At(w, k), WeightDen)}

(***************************************************************************)
(* Pattern detector (SpecPat).  The conditions below are those of the      *)
(* pattern definitions, on the bars themselves.                            *)
(***************************************************************************)
Detected == pres.status \notin {"idle", "off"}

Bar(k) == FromEnd(pin.bars, k)

Bearish(b) == b[4] < b[1]

Bullish(b) == b[4] > b[1]

\* body smaller than 10% of the high-low range
Doji(b) == 10 * Abs(b[4] - b[1]) < b[2] - b[3]

ThreeWhiteSoldiers ==
    /\ Bar(3)[4] < Bar(2)[4] /\ Bar(2)[4] < Bar(1)[4]
    /\ Bar(3)[2] < Bar(2)[2] /\ Bar(2)[2] < Bar(1)[2]

ThreeBlackCrows ==
    /\ Bar(3)[4] > Bar(2)[4] /\ Bar(2)[4] > Bar(1)[4]
    /\ Bar(3)[3] > Bar(2)[3] /\ Bar(2)[3] > Bar(1)[3]

MorningStar == Bearish(Bar(3)) /\ Doji(Bar(2)) /\ Bullish(Bar(1))

EveningStar == Bullish(Bar(3)) /\ Doji(Bar(2)) /\ Bearish(Bar(1))

ExpectedPattern ==
    IF ThreeWhiteSoldiers THEN PatternResult("ok", "THREE_WHITE_SOLDIERS", 80)
    ELSE IF ThreeBlackCrows THEN PatternResult("ok", "THREE_BLACK_CROWS", 80)
    ELSE IF MorningStar THEN PatternResult("ok", "MORNING_STAR", 80)
    ELSE IF EveningStar THEN PatternResult("ok", "EVENING_STAR", 80)
    ELSE PatternResult("ok", "NONE", 0)

\* C12: with bar[-3] bearish, bar[-2] a doji and bar[-1] bullish, and
\* neither Three White Soldiers nor Three Black Crows, the detector returns
\* MORNING_STAR with confidence 0.8.
C12_MorningStarScenario ==
    (/\ Detected /\ Len(pin.bars) >= 3
     /\ MorningStar /\ ~ThreeWhiteSoldiers /\ ~ThreeBlackCrows)
        => pres = PatternResult("ok", "MORNING_STAR", 80)

\* C13: for at least 3 bars the detector returns the first of
\* THREE_WHITE_SOLDIERS, THREE_BLACK_CROWS, MORNING_STAR, EVENING_STAR whose
\* condition holds on the bars, with confidence 0.8, and NONE with
\* confidence 0.0 exactly when none holds.
C13_FirstMatchingPattern ==
    (Detected /\ Len(pin.bars) >= 3) => pres = ExpectedPattern

\* C14: given fewer than 3 closes the detector returns NONE with confidence
\* 0.0 and does not raise, whatever the arrays hold.
C14_NoneBelowThreeBars ==
    (Detected /\ Len(pin.closes) < 3) => pres = PatternResult("ok", "NONE", 0)

\* C14 witness: the detector answered a call with two closes and three
\* entries in the other arrays.
C14_Witness ==
    /\ Detected /\ Len(pin.closes) = 2 /\ Len(pin.opens) = 3
    /\ pres = PatternResult("ok", "NONE", 0)

(***************************************************************************)
(* Directional predictor (SpecFpn)                                         *)
(***************************************************************************)
LastHurst == IF isnan(fin.hurst) THEN 500 ELSE fin.hurst

LastVol == IF isnan(fin.vol) THEN 20 ELSE fin.vol

ClaimedPrediction ==
    IF fin.n = 0 THEN <<"HOLD", 50>>
    ELSE IF LastHurst > fin.hurst_threshold /\ LastVol < 50 THEN <<"BUY", 70>>
    ELSE IF LastHurst < 1000 - fin.hurst_threshold \/ LastVol > 80 THEN <<"SELL", 60>>
    ELSE <<"HOLD", 50>>

ClaimedProbs ==
    IF fin.n = 0 THEN {<<33, 33, 34>>}
    ELSE CASE ClaimedPrediction[1] = "BUY"  -> {<<70, 15, 15>>}
           [] ClaimedPrediction[1] = "SELL" -> {<<15, 70, 15>>}
           [] OTHER                         -> {<<20, 20, 60>>}

AsClaimed(r) ==
    /\ <<r.signal, r.confidence>> = ClaimedPrediction
    /\ r.signal \in {"BUY", "SELL", "HOLD"}
    /\ r.confidence >= 0 /\ r.confidence <= 100

Exceptions == {"ValueError", "OverflowError", "NameError", "TypeError",
               "AttributeError"}

ConstantSixty ==
    call.impl = "engine" /\ call.closes = "constant" /\ call.n = 60
        /\ call.keys = Fields

\* C16: analyzing a constant-price series of 60 bars completes without
\* error and yields final_signal = HOLD.
C16_ConstantSeriesHolds ==
    (ConstantSixty /\ pc = "done") => (outcome \notin Exceptions /\ outcome = "HOLD")

(***************************************************************************)
(* Chaos modulator (SpecChaos)                                             *)
(***************************************************************************)
DefinedAt == {k \in 1..Len(cin.hurst) : ~isnan(cin.hurst[k])}

\* C20: the logistic-map state stays strictly inside (0,1) and never
\* reaches a fixed point: at every index with a defined hurst the state is
\* in the open interval and differs from the state before it.
C20_ChaosKeepsMoving ==
    cres.status = "done" =>
        \A k \in DefinedAt :
            /\ cres.xs[k] > 0 /\ cres.xs[k] < Scale
            /\ cres.xs[k] # (IF k = 1 THEN ChaosSeed ELSE cres.xs[k - 1])
            /\ cres.xs[k] # LogisticMap(cres.xs[k])

(***************************************************************************)
(* Active configuration (SpecCfg)                                          *)
(***************************************************************************)
\* C18: at most one QuantumEngineConfig is active at any time, whatever the
\* sequence and interleaving of form saves, update-config requests,
\* activate-config requests and pipeline runs.
C18_AtMostOneActive == Cardinality(ActiveConfigs) <= 1

(***************************************************************************)
(* Bar order at the engine boundary (SpecMd)                               *)
(***************************************************************************)
StrictlyIncreasing(seq) == \A k \in 1..(Len(seq) - 1) : seq[k] < seq[k + 1]

\* C19: the bars handed to the engine are in strictly increasing timestamp
\* order, so the last index, where the engine takes its snapshot, is the
\* most recent bar, the one whose timestamp the task stores as
\* prediction_timestamp.
C19_BarsIncreasing ==
    handoff.status = "analyzed" =>
        /\ StrictlyIncreasing(handoff.timestamps)
        /\ handoff.timestamps[Len(handoff.timestamps)] = SetMax(mdata)
        /\ handoff.by = "task" =>
              handoff.timestamps[Len(handoff.timestamps)] = handoff.prediction_timestamp

Split == ares.status = "done"

Indices == 0..(Len(ain.hurst) - 1)

\* the number of positive returns among the ten before index i
PositiveBefore(i) ==
    Cardinality({j \in (i - 10)..(i - 1) : j >= 0 /\ ain.returns[j + 1] > 0})

Eligible(i) == i >= ain.base_window /\ ain.hurst[i + 1] # NaN

\* C22: for i >= base_window_size with hurst[i] defined, more than 60% of
\* the trailing 10 returns positive gives hurst_up[i] = hurst[i] and
\* hurst_down[i] undefined, fewer than 40% the reverse, anything else
\* (exactly 60% and exactly 40% included) both undefined; for every other i
\* both are undefined.
C22_TrendSplit ==
    Split =>
        \A i \in Indices :
            LET up   == ares.hurst_up[i + 1]
                down == ares.hurst_down[i + 1]
                pos  == PositiveBefore(i)
            IN  /\ (Eligible(i) /\ pos * 100 > 60 * 10) =>
                        (up = ain.hurst[i + 1] /\ down = NaN)
                /\ (Eligible(i) /\ pos * 100 < 40 * 10) =>
                        (down = ain.hurst[i + 1] /\ up = NaN)
                /\ (Eligible(i) /\ pos * 100 <= 60 * 10 /\ pos * 100 >= 40 * 10) =>
                        (up = NaN /\ down = NaN)
                /\ ~Eligible(i) => (up = NaN /\ down = NaN)

\* C22 witness: the splitter has run on a series with an index at exactly
\* 60% positive returns and an uptrend index, both with hurst defined.
C22_Witness ==
    /\ Split
    /\ \E i \in Indices : Eligible(i) /\ PositiveBefore(i) = 6
    /\ \E i \in Indices : Eligible(i) /\ PositiveBefore(i) > 6

\* C27: at every index hurst_up[i] and hurst_down[i] are never both
\* defined, and whichever is defined equals hurst[i].
C27_NeverBothDefined ==
    Split =>
        \A k \in 1..Len(ain.hurst) :
            /\ ares.hurst_up[k] = NaN \/ ares.hurst_down[k] = NaN
            /\ ares.hurst_up[k] # NaN => ares.hurst_up[k] = ain.hurst[k]
            /\ ares.hurst_down[k] # NaN => ares.hurst_down[k] = ain.hurst[k]

\* C27 witness: one call has produced an index with hurst_down defined
\* and a neutral one whose hurst is defined.
C27_Witness ==
    /\ Split
    /\ \E k \in 1..Len(ain.hurst) : ares.hurst_down[k] # NaN
    /\ \E k \in 1..Len(ain.hurst) :
          /\ Eligible(k - 1)
          /\ ares.hurst_up[k] = NaN /\ ares.hurst_down[k] = NaN

LastUp == ares.hurst_up[Len(ares.hurst_up)]

LastDown == ares.hurst_down[Len(ares.hurst_down)]

\* C30: when the last index is a downtrend (hurst_down defined, hurst_up
\* undefined) the aggregator's buy-side regime condition is false and its
\* sell-side one true; in an uptrend the buy-side one is true and the
\* sell-side one false.
C30_RegimeFollowsTrend ==
    regime.status = "done" =>
        /\ (LastDown # NaN /\ LastUp = NaN) => (~regime.buy_side /\ regime.sell_side)
        /\ (LastUp # NaN /\ LastDown = NaN) => (regime.buy_side /\ ~regime.sell_side)

(***************************************************************************)
(* Preprocessing (SpecPrep)                                                *)
(***************************************************************************)
Preprocessed == DOMAIN processed # DOMAIN NoData

DefinedIn(a) == {k \in 1..Len(a) : a[k] # NaN}

\* C23: for each of the open/high/low/close arrays with at least one
\* defined value, after preprocessing no entry is undefined, every
\* originally undefined entry equals the nearest preceding defined entry
\* or, if none precedes it, the first defined entry, and every originally
\* defined entry is unchanged.
C23_ForwardThenBackwardFill ==
    Preprocessed =>
        \A key \in PriceKeys :
            LET a == raw[key]
                b == processed[key]
                nearest_before(k) == CHOOSE j \in DefinedIn(a) :
                                        j < k /\ \A i \in DefinedIn(a) : i < k => i <= j
                first_defined == CHOOSE j \in DefinedIn(a) : \A i \in DefinedIn(a) : j <= i
            IN  DefinedIn(a) # {} =>
                    /\ Len(b) = Len(a)
                    /\ \A k \in 1..Len(a) :
                          /\ b[k] # NaN
                          /\ a[k] # NaN => b[k] = a[k]
                          /\ (a[k] = NaN /\ \E j \in DefinedIn(a) : j < k) =>
                                b[k] = a[nearest_before(k)]
                          /\ (a[k] = NaN /\ ~\E j \in DefinedIn(a) : j < k) =>
                                b[k] = a[first_defined]

\* C23 witness: the closes had an undefined entry before the first defined
\* one and an undefined entry between two defined ones, and were filled.
C23_Witness ==
    /\ Preprocessed
    /\ \E i, j, k \in 1..Len(raw.closes) :
          /\ i < j /\ j < k
          /\ raw.closes[i] # NaN /\ raw.closes[j] = NaN /\ raw.closes[k] # NaN
    /\ Len(raw.closes) > 0 /\ raw.closes[1] = NaN

(***************************************************************************)
(* Prediction queue (SpecQueue)                                            *)
(***************************************************************************)
StatusMoves ==
    {<<"PENDING", "PROCESSING">>, <<"PROCESSING", "COMPLETED">>, <<"PROCESSING", "FAILED">>}

\* C26: the analysis of a queue entry runs at most once under any
\* interleaving of invocations for the same entry id, and the entry's
\* status only moves PENDING -> PROCESSING -> COMPLETED or FAILED.
C26_AnalysisAtMostOnce ==
    [][/\ runs' <= 1
       /\ qentry' # qentry => <<qentry, qentry'>> \in StatusMoves]_vars

====
